---- MODULE Spec2Model ----
(***************************************************************************)
(* Telemetry safety pipeline of datadog-frontend-toolkit: the Sanitizer    *)
(* (utils/sanitizer.ts), and the error-processing flow that hands events   *)
(* to the Datadog logs and RUM transports (ErrorBoundary, LoggerService,   *)
(* LogsManager, RumManager).                                               *)
(*                                                                         *)
(* A JavaScript string is a sequence of one-character strings, so that     *)
(* the regular expressions, toLowerCase, substring and length of the       *)
(* source are computed and not assumed.                                    *)
(***************************************************************************)
EXTENDS Integers, Sequences, FiniteSets, TLC

(***************************************************************************)
(* Characters and strings                                                  *)
(***************************************************************************)
LowerAlpha == <<"a","b","c","d","e","f","g","h","i","j","k","l","m","n","o","p","q","r","s","t","u","v","w","x","y","z">>
UpperAlpha == <<"A","B","C","D","E","F","G","H","I","J","K","L","M","N","O","P","Q","R","S","T","U","V","W","X","Y","Z">>
DigitChars == <<"0","1","2","3","4","5","6","7","8","9">>

Range(f) == { f[i] : i \in DOMAIN f }

Letters == Range(LowerAlpha) \cup Range(UpperAlpha)
Digits == Range(DigitChars)

\* \w of a JavaScript regular expression, which decides \b.
WordChars == Letters \cup Digits \cup {"_"}

\* String.prototype.toLowerCase, one character.
ToLowerChar(c) ==
  IF c \in Range(UpperAlpha)
    THEN LowerAlpha[CHOOSE i \in 1..26 : UpperAlpha[i] = c]
    ELSE c

ToLowerCase(s) == [ i \in 1..Len(s) |-> ToLowerChar(s[i]) ]

\* key.replace(/[-_]/g, ''): every '-' and '_' removed.
StripSeparators(s) == SelectSeq(s, LAMBDA c : c \notin {"-", "_"})

\* Number to string, as a template literal prints value.length.
RECURSIVE ToDecimal(_)
ToDecimal(n) ==
  IF n < 10 THEN << DigitChars[n + 1] >>
  ELSE ToDecimal(n \div 10) \o << DigitChars[(n % 10) + 1] >>

\* String.prototype.substring(0, n).
Substring0(s, n) == SubSeq(s, 1, IF n < Len(s) THEN n ELSE Len(s))

\* s contains t as a contiguous run of characters (String.prototype.includes).
Includes(s, t) ==
  \E i \in 1..(Len(s) - Len(t) + 1) : SubSeq(s, i, i + Len(t) - 1) = t

(***************************************************************************)
(* The sanitizer's constants                                               *)
(***************************************************************************)
REDACTED == <<"[","R","E","D","A","C","T","E","D","]">>
MAX_DEPTH_EXCEEDED == <<"[","M","A","X","_","D","E","P","T","H","_","E","X","C","E","E","D","E","D","]">>
CIRCULAR_REFERENCE == <<"[","C","I","R","C","U","L","A","R","_","R","E","F","E","R","E","N","C","E","]">>
MAX_DEPTH == 10
MAX_STRING_LENGTH == 10000
MAX_ARRAY_LENGTH == 100

DEFAULT_SENSITIVE_KEYS == {
    <<"p","a","s","s","w","o","r","d">>,
    <<"p","a","s","s","w","d">>,
    <<"s","e","c","r","e","t">>,
    <<"t","o","k","e","n">>,
    <<"a","p","i","k","e","y">>,
    <<"a","p","i","_","k","e","y">>,
    <<"a","u","t","h","o","r","i","z","a","t","i","o","n">>,
    <<"a","u","t","h">>,
    <<"c","r","e","d","e","n","t","i","a","l">>,
    <<"p","r","i","v","a","t","e","_","k","e","y">>,
    <<"p","r","i","v","a","t","e","k","e","y">>,
    <<"a","c","c","e","s","s","_","t","o","k","e","n">>,
    <<"r","e","f","r","e","s","h","_","t","o","k","e","n">>,
    <<"s","s","n">>,
    <<"c","r","e","d","i","t","_","c","a","r","d">>,
    <<"c","r","e","d","i","t","c","a","r","d">>,
    <<"c","v","v">>,
    <<"p","i","n">>,
    <<"o","t","p">> }

(***************************************************************************)
(* DEFAULT_PII_PATTERNS: the four regular expressions, matched as the      *)
(* JavaScript engine matches them (leftmost start, greedy quantifiers      *)
(* with backtracking, \b between a \w and a non-\w character).             *)
(***************************************************************************)
IsWordAt(s, i) == i \in 1..Len(s) /\ s[i] \in WordChars

\* \b holds before position i (i = Len(s) + 1: at the end of s).
Boundary(s, i) == IsWordAt(s, i - 1) # IsWordAt(s, i)

Max(S) == CHOOSE x \in S : \A y \in S : y <= x

\* [A-Za-z0-9._%+-], [A-Za-z0-9.-] and [A-Z|a-z] of the email pattern.
EmailLocalChars == Letters \cup Digits \cup {".", "_", "%", "+", "-"}
EmailDomainChars == Letters \cup Digits \cup {".", "-"}
EmailTldChars == Letters \cup {"|"}

\* /\b[A-Za-z0-9._%+-]+@[A-Za-z0-9.-]+\.[A-Z|a-z]{2,}\b/ tried at position i:
\* the index of the last character matched, 0 when there is no match at i.
EmailMatchEnd(s, i) ==
  IF ~(Boundary(s, i) /\ s[i] \in EmailLocalChars) THEN 0
  ELSE
    LET n  == Len(s)
        \* '@' is not a local character, so the greedy local part is the whole run.
        at == CHOOSE a \in i..(n + 1) :
                /\ \A j \in i..(a - 1) : s[j] \in EmailLocalChars
                /\ (a = n + 1 \/ s[a] \notin EmailLocalChars)
    IN IF at > n \/ s[at] # "@" THEN 0
       ELSE
         LET d0 == at + 1
             TldEnds(p) == { e \in (p + 2)..n :
                               /\ \A j \in (p + 1)..e : s[j] \in EmailTldChars
                               /\ Boundary(s, e + 1) }
             Dots == { p \in (d0 + 1)..n :
                         /\ s[p] = "."
                         /\ \A j \in d0..(p - 1) : s[j] \in EmailDomainChars
                         /\ TldEnds(p) # {} }
         IN IF Dots = {} THEN 0 ELSE Max(TldEnds(Max(Dots)))

\* A digit pattern is a sequence of elements: a digit, a literal, or an optional
\* character of a class.
D == [kind |-> "digit", chars |-> Digits]
Lit(c) == [kind |-> "lit", chars |-> {c}]
Opt(cs) == [kind |-> "opt", chars |-> cs]

\* /\b\d{3}[-.]?\d{3}[-.]?\d{4}\b/
PhonePattern == << D, D, D, Opt({"-", "."}), D, D, D, Opt({"-", "."}), D, D, D, D >>
\* /\b\d{4}[- ]?\d{4}[- ]?\d{4}[- ]?\d{4}\b/
CardPattern == << D, D, D, D, Opt({"-", " "}), D, D, D, D, Opt({"-", " "}),
                  D, D, D, D, Opt({"-", " "}), D, D, D, D >>
\* /\b\d{3}-\d{2}-\d{4}\b/
SsnPattern == << D, D, D, Lit("-"), D, D, Lit("-"), D, D, D, D >>

\* The elements pat[k..] matched from position pos: the index of the last
\* character matched, or -1. An optional separator is never a digit, so taking
\* it when present is the only way to match what follows.
RECURSIVE MatchElems(_, _, _, _)
MatchElems(s, pos, pat, k) ==
  IF k > Len(pat) THEN pos - 1
  ELSE
    LET e == pat[k]
        here == pos <= Len(s) /\ s[pos] \in e.chars
    IN IF e.kind = "opt"
         THEN MatchElems(s, IF here THEN pos + 1 ELSE pos, pat, k + 1)
         ELSE IF here THEN MatchElems(s, pos + 1, pat, k + 1) ELSE -1

DigitMatchEnd(s, i, pat) ==
  IF ~Boundary(s, i) THEN 0
  ELSE LET e == MatchElems(s, i, pat, 1)
       IN IF e >= i /\ Boundary(s, e + 1) THEN e ELSE 0

DEFAULT_PII_PATTERNS == << "email", "phone", "card", "ssn" >>

MatchEnd(pattern, s, i) ==
  CASE pattern = "email" -> EmailMatchEnd(s, i)
    [] pattern = "phone" -> DigitMatchEnd(s, i, PhonePattern)
    [] pattern = "card"  -> DigitMatchEnd(s, i, CardPattern)
    [] pattern = "ssn"   -> DigitMatchEnd(s, i, SsnPattern)

\* result.replace(cloned, REDACTED) with a global pattern: every match, found
\* left to right on the original text, replaced by the marker.
RECURSIVE ReplaceAll(_, _, _)
ReplaceAll(pattern, s, i) ==
  IF i > Len(s) THEN << >>
  ELSE LET e == MatchEnd(pattern, s, i)
       IN IF e > 0 THEN REDACTED \o ReplaceAll(pattern, s, e + 1)
          ELSE << s[i] >> \o ReplaceAll(pattern, s, i + 1)

RECURSIVE ApplyPatterns(_, _, _)
ApplyPatterns(patterns, s, k) ==
  IF k > Len(patterns) THEN s
  ELSE ApplyPatterns(patterns, ReplaceAll(patterns[k], s, 1), k + 1)

TruncationNoticePrefix == <<".",".","."," ","[","t","r","u","n","c","a","t","e","d",","," ","t","o","t","a","l",":"," ">>

\* A truncation that keeps one character too many.
truncateStringOneMore(this, value) ==
  IF Len(value) <= this.maxStringLength THEN value
  ELSE Substring0(value, this.maxStringLength + 1)
         \o TruncationNoticePrefix \o ToDecimal(Len(value)) \o << "]" >>

truncateString(this, value) ==
  IF Len(value) <= this.maxStringLength THEN value
  ELSE Substring0(value, this.maxStringLength)
         \o TruncationNoticePrefix \o ToDecimal(Len(value)) \o << "]" >>

sanitizeString(this, value) ==
  truncateString(this, ApplyPatterns(this.piiPatterns, value, 1))

(***************************************************************************)
(* JavaScript values.  Primitives and Dates are written inline; an object, *)
(* an array or an Error is a reference into a heap, so that two positions  *)
(* can hold the same object and an object can contain itself.              *)
(***************************************************************************)
VUndefined == [t |-> "undefined"]
VNull == [t |-> "null"]
VNum(n) == [t |-> "number", n |-> n]
VBool(b) == [t |-> "boolean", b |-> b]
VStr(s) == [t |-> "string", s |-> s]
\* A Date; toISOString throws a RangeError on an invalid one.
VDate(valid) == [t |-> "date", valid |-> valid]
\* A function, symbol or bigint: the only thing the sanitizer does with it is
\* String(value), which is str.
VOther(str) == [t |-> "other", str |-> str]
VRef(id) == [t |-> "ref", id |-> id]

\* What a heap holds, and what the sanitizer builds (a tree: its parts inline).
Obj(entries) == [t |-> "object", entries |-> entries]
Arr(items) == [t |-> "array", items |-> items]
\* An Error: props are its own properties other than name, message, stack, cause.
Err(name, message, stack, cause, props) ==
  [t |-> "error", name |-> name, message |-> message, stack |-> stack, cause |-> cause,
   props |-> props]
Entry(key, val) == [key |-> key, val |-> val]

\* An exception leaving the function.
Throw(error) == [t |-> "throw", error |-> error]
IsThrow(v) == v.t = "throw"

IsoString == <<"2","0","2","4","-","0","1","-","0","1","T","0","0",":","0","0",":","0","0",".","0","0","0","Z">>

\* Date.prototype.toISOString
toISOString(value) ==
  IF value.valid THEN VStr(IsoString) ELSE Throw("RangeError: Invalid time value")

\* The truthiness test of `error.stack ?` and `error.cause ?`.
Truthy(v) ==
  CASE v.t \in {"undefined", "null"} -> FALSE
    [] v.t = "number" -> v.n # 0
    [] v.t = "boolean" -> v.b
    [] v.t = "string" -> v.s # << >>
    [] OTHER -> TRUE

\* The frames of deepSanitize the engine's call stack holds before it throws
\* "Maximum call stack size exceeded"; deepSanitize nests maxDepth + 2 deep at most.
CallStackLimit == 14

(***************************************************************************)
(* class Sanitizer                                                         *)
(***************************************************************************)
\* new Sanitizer(piiFields, maxDepth, maxStringLength)
Sanitizer(piiFields, maxDepth, maxStringLength) ==
  [ sensitiveKeys   |-> DEFAULT_SENSITIVE_KEYS \cup { ToLowerCase(f) : f \in piiFields },
    piiPatterns     |-> DEFAULT_PII_PATTERNS,
    maxDepth        |-> maxDepth,
    maxStringLength |-> maxStringLength ]

\* A lookup that does not lower-case the key.
isSensitiveKeyExact(this, key) ==
  \/ key \in this.sensitiveKeys
  \/ StripSeparators(key) \in this.sensitiveKeys

isSensitiveKey(this, key) ==
  LET lower == ToLowerCase(key)
  IN \/ lower \in this.sensitiveKeys
     \/ StripSeparators(lower) \in this.sensitiveKeys

\* A depth test that cuts one level early.
DepthReached(this, depth) == depth >= this.maxDepth

DepthExceeded(this, depth) == depth > this.maxDepth

K_name == <<"n","a","m","e">>
K_message == <<"m","e","s","s","a","g","e">>
K_stack == <<"s","t","a","c","k">>
K_cause == <<"c","a","u","s","e">>

\* A traversal that does not count the levels it descends.
SameDepth(depth) == depth

\* The depth handed to the traversal of a child: depth + 1 in the three places
\* that recurse (array items, object values, an Error's cause).
ChildDepth(depth) == depth + 1

\* A call returns its value, and leaves the shared WeakSet `seen` and the
\* objects of the heap as it made them.
Ret(val, seen, heap) == [val |-> val, seen |-> seen, heap |-> heap]

\* An assignment that writes into the object being read, id, instead.
AssignInPlace(sanitized, heap, id, key, val) ==
  [ sanitized |-> Append(sanitized, Entry(key, val)),
    heap |-> [ heap EXCEPT ![id] =
                 Obj([ i \in 1..Len(heap[id].entries) |->
                         IF heap[id].entries[i].key = key THEN Entry(key, val)
                         ELSE heap[id].entries[i] ]) ] ]

\* sanitized[key] = val, while the entries of the object id are read: the new
\* object gets the property, the heap is left alone.
Assign(sanitized, heap, id, key, val) ==
  [ sanitized |-> Append(sanitized, Entry(key, val)), heap |-> heap ]

RECURSIVE deepSanitize(_, _, _, _, _, _)
RECURSIVE sanitizeError(_, _, _, _, _, _)
RECURSIVE MapItems(_, _, _, _, _, _, _, _)
RECURSIVE SanitizeEntries(_, _, _, _, _, _, _, _, _)

\* deepSanitize(value, depth, seen); sp counts the deepSanitize frames on the stack.
deepSanitize(this, heap, value, depth, seen, sp) ==
  IF sp > CallStackLimit
    THEN Ret(Throw("RangeError: Maximum call stack size exceeded"), seen, heap)
  ELSE IF DepthExceeded(this, depth) THEN Ret(VStr(MAX_DEPTH_EXCEEDED), seen, heap)
  ELSE IF value.t \in {"null", "undefined"} THEN Ret(value, seen, heap)
  ELSE IF value.t = "string" THEN Ret(VStr(sanitizeString(this, value.s)), seen, heap)
  ELSE IF value.t \in {"number", "boolean"} THEN Ret(value, seen, heap)
  ELSE IF value.t = "date" THEN Ret(toISOString(value), seen, heap)
  ELSE IF value.t = "ref" /\ heap[value.id].t = "error"
    THEN sanitizeError(this, heap, heap[value.id], depth, seen, sp)
  ELSE IF value.t = "ref" /\ heap[value.id].t = "array"
    THEN LET limited == Substring0(heap[value.id].items, MAX_ARRAY_LENGTH)
         IN MapItems(this, heap, limited, 1, depth, seen, sp, << >>)
  ELSE IF value.t = "ref"
    THEN IF value.id \in seen THEN Ret(VStr(CIRCULAR_REFERENCE), seen, heap)
         ELSE SanitizeEntries(this, heap, value.id, heap[value.id].entries, 1, depth,
                              seen \cup {value.id}, sp, << >>)
  ELSE Ret(VStr(value.str), seen, heap)

\* limited.map((item) => this.deepSanitize(item, depth + 1, seen)), item k onwards.
MapItems(this, heap, items, k, depth, seen, sp, acc) ==
  IF k > Len(items) THEN Ret(Arr(acc), seen, heap)
  ELSE LET r == deepSanitize(this, heap, items[k], ChildDepth(depth), seen, sp + 1)
       IN IF IsThrow(r.val) THEN r
          ELSE MapItems(this, r.heap, items, k + 1, depth, r.seen, sp, Append(acc, r.val))

\* for (const [key, val] of Object.entries(value)) { ... }, entry k onwards of
\* the entries of the object id as Object.entries listed them.
SanitizeEntries(this, heap, id, entries, k, depth, seen, sp, acc) ==
  IF k > Len(entries) THEN Ret(Obj(acc), seen, heap)
  ELSE IF isSensitiveKey(this, entries[k].key)
    THEN LET w == Assign(acc, heap, id, entries[k].key, VStr(REDACTED))
         IN SanitizeEntries(this, w.heap, id, entries, k + 1, depth, seen, sp, w.sanitized)
  ELSE LET r == deepSanitize(this, heap, entries[k].val, ChildDepth(depth), seen, sp + 1)
           w == Assign(acc, r.heap, id, entries[k].key, r.val)
       IN IF IsThrow(r.val) THEN r
          ELSE SanitizeEntries(this, w.heap, id, entries, k + 1, depth, r.seen, sp,
                               w.sanitized)

sanitizeError(this, heap, error, depth, seen, sp) ==
  LET message == VStr(sanitizeString(this, error.message))
      stack == IF Truthy(error.stack) THEN VStr(sanitizeString(this, error.stack.s))
               ELSE VUndefined
      cause == IF Truthy(error.cause)
                 THEN deepSanitize(this, heap, error.cause, ChildDepth(depth), seen, sp + 1)
                 ELSE Ret(VUndefined, seen, heap)
  IN IF IsThrow(cause.val) THEN cause
     ELSE Ret(Obj(<< Entry(K_name, VStr(error.name)), Entry(K_message, message),
                     Entry(K_stack, stack), Entry(K_cause, cause.val) >>),
              cause.seen, cause.heap)

\* sanitize(data): deepSanitize(data, 0, new WeakSet())
sanitize(this, heap, data) == deepSanitize(this, heap, data, 0, {}, 1).val

\* The objects of the heap as sanitize(data) leaves them.
sanitizeHeap(this, heap, data) == deepSanitize(this, heap, data, 0, {}, 1).heap

(***************************************************************************)
(* utils/fingerprint                                                       *)
(***************************************************************************)
\* The characters with char codes 32..95 and 97..126, in order.
AsciiLow == <<" ","!","\"","#","$","%","&","'","(",")","*","+",",","-",".","/","0","1","2","3","4","5","6","7","8","9",":",";","<","=",">","?","@","A","B","C","D","E","F","G","H","I","J","K","L","M","N","O","P","Q","R","S","T","U","V","W","X","Y","Z","[","\\","]","^","_">>
AsciiHigh == <<"a","b","c","d","e","f","g","h","i","j","k","l","m","n","o","p","q","r","s","t","u","v","w","x","y","z","{","|","}","~">>

\* String.prototype.charCodeAt, of a one-character string
charCodeAt(c) ==
  IF c = "\n" THEN 10
  ELSE IF \E i \in 1..Len(AsciiLow) : AsciiLow[i] = c
    THEN 31 + CHOOSE i \in 1..Len(AsciiLow) : AsciiLow[i] = c
  ELSE 96 + CHOOSE i \in 1..Len(AsciiHigh) : AsciiHigh[i] = c

HexDigits == <<"0","1","2","3","4","5","6","7","8","9","a","b","c","d","e","f">>

\* Four hexadecimal digits of a 16-bit number.
Hex4(n) ==
  << HexDigits[((n \div 4096) % 16) + 1], HexDigits[((n \div 256) % 16) + 1],
     HexDigits[((n \div 16) % 16) + 1], HexDigits[(n % 16) + 1] >>

\* The loop of hashString from character i on.  hash is a 32-bit integer, kept
\* as its two 16-bit halves hi and lo:  ((hash << 5) + hash + code) & 0xffffffff
\* is hash * 33 + code modulo 2^32.
RECURSIVE HashFrom(_, _, _, _)
HashFrom(str, i, hi, lo) ==
  IF i > Len(str) THEN Hex4(hi) \o Hex4(lo)
  ELSE LET low == (lo * 33) + charCodeAt(str[i])
       IN HashFrom(str, i + 1, ((hi * 33) + (low \div 65536)) % 65536, low % 65536)

\* hashString(str): djb2 from 5381, (hash >>> 0).toString(16).padStart(8, '0')
hashString(str) == HashFrom(str, 1, 0, 5381)

\* String.prototype.split, on a one-character separator
RECURSIVE split(_, _)
split(s, sep) ==
  IF \E i \in 1..Len(s) : s[i] = sep
    THEN LET i == CHOOSE j \in 1..Len(s) : s[j] = sep /\ \A k \in 1..(j - 1) : s[k] # sep
         IN << SubSeq(s, 1, i - 1) >> \o split(SubSeq(s, i + 1, Len(s)), sep)
    ELSE << s >>

WhiteSpace == {" ", "\t", "\n"}

\* String.prototype.trim
RECURSIVE trim(_)
trim(s) ==
  IF s # << >> /\ s[1] \in WhiteSpace THEN trim(Tail(s))
  ELSE IF s # << >> /\ s[Len(s)] \in WhiteSpace THEN trim(SubSeq(s, 1, Len(s) - 1))
  ELSE s

startsWith(s, prefix) ==
  Len(s) >= Len(prefix) /\ SubSeq(s, 1, Len(prefix)) = prefix

S_UnknownError == <<"U","n","k","n","o","w","n","E","r","r","o","r">>
S_at == <<"a","t"," ">>
S_node_modules == <<"n","o","d","e","_","m","o","d","u","l","e","s">>
S_toolkit == <<"d","a","t","a","d","o","g","-","f","r","o","n","t","e","n","d","-","t","o","o","l","k","i","t">>
S_anonymous == <<"<","a","n","o","n","y","m","o","u","s",">">>

\* extractRelevantStack(stack): the first frame that is not library code
extractRelevantStack(stack) ==
  IF ~Truthy(stack) THEN << >>
  ELSE LET lines == SelectSeq(split(stack.s, "\n"),
                              LAMBDA line : startsWith(trim(line), S_at))
           relevant == SelectSeq(lines, LAMBDA line :
                                   /\ ~Includes(line, S_node_modules)
                                   /\ ~Includes(line, S_toolkit)
                                   /\ ~Includes(line, S_anonymous))
       IN trim(IF relevant # << >> THEN relevant[1]
               ELSE IF lines # << >> THEN lines[1]
               ELSE << >>)

\* generateErrorFingerprint hashing the first frame of the stack, library
\* code or not
generateErrorFingerprintOfFirstFrame(error) ==
  hashString((IF error.name # << >> THEN error.name ELSE S_UnknownError)
             \o <<"|">> \o error.message
             \o <<"|">> \o (IF ~Truthy(error.stack) THEN << >>
                            ELSE LET lines == SelectSeq(split(error.stack.s, "\n"),
                                                        LAMBDA line : startsWith(trim(line), S_at))
                                 IN trim(IF lines # << >> THEN lines[1] ELSE << >>)))

\* generateErrorFingerprint(error): the hash of name|message|frame
generateErrorFingerprint(error) ==
  hashString((IF error.name # << >> THEN error.name ELSE S_UnknownError)
             \o <<"|">> \o error.message
             \o <<"|">> \o extractRelevantStack(error.stack))

(***************************************************************************)
(* The path of a captured error: ErrorBoundary -> LoggerService ->         *)
(* LogsManager -> datadogLogs, and ErrorBoundary -> RumManager ->          *)
(* datadogRum.                                                             *)
(***************************************************************************)
K_error_source == <<"e","r","r","o","r","_","s","o","u","r","c","e">>
K_handled == <<"h","a","n","d","l","e","d">>
K_url == <<"u","r","l">>
K_view == <<"v","i","e","w">>
K_user_id == <<"u","s","e","r","_","i","d">>
K_type == <<"t","y","p","e">>
K_fingerprint == <<"f","i","n","g","e","r","p","r","i","n","t">>
K_metadata == <<"m","e","t","a","d","a","t","a">>
K_error == <<"e","r","r","o","r">>
K_service == <<"s","e","r","v","i","c","e">>
K_env == <<"e","n","v">>
K_version == <<"v","e","r","s","i","o","n">>
K_browser == <<"b","r","o","w","s","e","r">>
K_user == <<"u","s","e","r">>
K_tags == <<"t","a","g","s">>
K_timestamp == <<"t","i","m","e","s","t","a","m","p">>
K_online == <<"o","n","l","i","n","e">>
K_id == <<"i","d">>
K_email == <<"e","m","a","i","l">>
S_Error == <<"E","r","r","o","r">>
S_custom == <<"c","u","s","t","o","m">>
S_href == <<"h","t","t","p","s",":","/","/","a","p","p",".","t","e","s","t","/">>

\* target[key] = val: an existing key keeps its place
SetProp(entries, key, val) ==
  IF \E i \in 1..Len(entries) : entries[i].key = key
    THEN [ i \in 1..Len(entries) |->
             IF entries[i].key = key THEN Entry(key, val) ELSE entries[i] ]
    ELSE Append(entries, Entry(key, val))

\* { ...target, ...source }
RECURSIVE Spread(_, _)
Spread(target, source) ==
  IF source = << >> THEN target
  ELSE Spread(SetProp(target, Head(source).key, Head(source).val), Tail(source))

\* The own enumerable properties a spread of value copies.
EntriesOf(h, value) ==
  IF value.t = "object" THEN value.entries
  ELSE IF value.t = "ref" /\ h[value.id].t = "object" THEN h[value.id].entries
  ELSE << >>

LOG_LEVEL_PRIORITY ==
  [debug |-> 0, info |-> 1, warn |-> 2, error |-> 3, critical |-> 4]

\* ContextManager.getUser
getUser(contextManager) == contextManager.userContext

\* ContextManager.getView
getView(contextManager) == contextManager.viewName

\* ContextManager.getFullContext
getFullContext(config, contextManager) ==
  Spread(contextManager.globalContext,
         << Entry(K_service, VStr(config.service)),
            Entry(K_env, VStr(config.env)),
            Entry(K_version, VStr(config.version)),
            Entry(K_url, VStr(S_href)),
            Entry(K_view, contextManager.viewName),
            Entry(K_browser, Obj(<< Entry(K_online, VBool(TRUE)) >>)),
            Entry(K_user, contextManager.userContext),
            Entry(K_tags, Arr(<< >>)),
            Entry(K_timestamp, VStr(IsoString)) >>)

\* LoggerService.extractErrorMetadata: the own properties, as they are
extractErrorMetadata(error) == Obj(error.props)

\* The object serializeError returns once error.cause is serialized, or the
\* exception that serializing the cause threw.
SerializedError(this, error, cause) ==
  IF IsThrow(cause) THEN cause
  ELSE Obj(<< Entry(K_name, VStr(error.name)),
              Entry(K_message, VStr(sanitizeString(this, error.message))),
              Entry(K_stack, IF Truthy(error.stack)
                               THEN VStr(sanitizeString(this, error.stack.s))
                               ELSE VUndefined),
              Entry(K_cause, cause),
              Entry(K_type, VStr(S_Error)),
              Entry(K_fingerprint, VStr(generateErrorFingerprint(error))),
              Entry(K_metadata, extractErrorMetadata(error)) >>)

\* LoggerService.serializeError; sp counts its frames on the stack
RECURSIVE serializeError(_, _, _, _)
serializeError(this, h, error, sp) ==
  IF sp > CallStackLimit
    THEN Throw("RangeError: Maximum call stack size exceeded")
  ELSE SerializedError(this, error,
                       IF error.cause.t = "ref" /\ h[error.cause.id].t = "error"
                         THEN serializeError(this, h, h[error.cause.id], sp + 1)
                         ELSE VUndefined)

\* LogsManager.mapLogLevel
mapLogLevel(level) == IF level = "critical" THEN "error" ELSE level

\* LogsManager.log: the calls it makes on datadogLogs.logger
LogsManager_log(config, contextManager, initialized, level, message, context, error) ==
  IF ~initialized THEN << >>
  ELSE LET enrichedContext ==
             Spread(Spread(getFullContext(config, contextManager), EntriesOf(<< >>, context)),
                    IF error # VUndefined THEN << Entry(K_error, error) >> ELSE << >>)
       IN << [method |-> mapLogLevel(level), message |-> message,
              context |-> Obj(enrichedContext)] >>

\* What a call leaves behind: how it ended, the calls made on datadogLogs and
\* the events emitted.
Effect(result, logs, events) == [result |-> result, logs |-> logs, events |-> events]

shouldLog(config, level) == LOG_LEVEL_PRIORITY[level] >= LOG_LEVEL_PRIORITY[config.logLevel]

shouldForwardToDatadog(level) == LOG_LEVEL_PRIORITY[level] >= LOG_LEVEL_PRIORITY["warn"]

\* LoggerService.scopeContext, which only setContext changes
scopeContext == << >>

\* LoggerService.log from the point where the error is serialized, the merged
\* context sanitized and the message sanitized
Logged(config, contextManager, logsInit, level, entryMessage, serializedError, mergedContext, t) ==
  IF IsThrow(serializedError) THEN Effect(serializedError, << >>, << >>)
  ELSE IF IsThrow(mergedContext) THEN Effect(mergedContext, << >>, << >>)
  ELSE Effect(VUndefined,
              IF shouldForwardToDatadog(level)
                THEN LogsManager_log(config, contextManager, logsInit, level,
                                     entryMessage, mergedContext, serializedError)
                ELSE << >>,
              << [type |-> "LOG_SENT", timestamp |-> t,
                  data |-> [level |-> level, message |-> entryMessage]] >>)

\* LoggerService.log(level, message, error, context) at time t
log(this, config, contextManager, logsInit, h, level, message, error, context, t) ==
  IF ~shouldLog(config, level) THEN Effect(VUndefined, << >>, << >>)
  ELSE Logged(config, contextManager, logsInit, level,
              sanitizeString(this, message),
              IF error = VUndefined THEN VUndefined
              ELSE serializeError(this, h, h[error.id], 1),
              sanitize(this, Append(h, Obj(Spread(scopeContext, EntriesOf(h, context)))),
                       VRef(Len(h) + 1)),
              t)

\* RumManager.addError: the calls it makes on datadogRum
addError(initialized, error, context) ==
  IF ~initialized THEN << >>
  ELSE << [method |-> "addError", error |-> error, context |-> context] >>

\* ErrorBoundary.shouldIgnore, for string patterns
shouldIgnore(config, error) ==
  \E pattern \in config.ignorePatterns : Includes(error.message, pattern)

windowMs == 60000

\* A number that need not be whole: n / d with d > 0
Fraction(n, d) == [n |-> n, d |-> d]
\* count > x, count === x + 1 and x < 1, for a whole count and a number x
Exceeds(count, x) == count * x.d > x.n
IsOneMoreThan(count, x) == count * x.d = x.n + x.d
LessThanOne(x) == x.n < x.d

\* isThrottled with the comparison errorCount >= maxErrorsPerMinute
isThrottledInclusive(config, count, windowStart, t) ==
  LET expired == t - windowStart > windowMs
      errorCount1 == (IF expired THEN 0 ELSE count) + 1
      threshold == config.maxErrorsPerMinute
  IN [ throttled |-> errorCount1 * threshold.d >= threshold.n,
       errorCount |-> errorCount1,
       errorWindowStart |-> IF expired THEN t ELSE windowStart,
       events |-> IF Exceeds(errorCount1, threshold) /\ IsOneMoreThan(errorCount1, threshold)
                    THEN << [type |-> "THROTTLE_ACTIVATED", timestamp |-> t,
                             data |-> [errorsPerMinute |-> errorCount1,
                                       threshold |-> threshold]] >>
                    ELSE << >> ]

\* isThrottled with a window that expires when now - errorWindowStart >= windowMs
isThrottledAtWindowEnd(config, count, windowStart, t) ==
  LET expired == t - windowStart >= windowMs
      errorCount1 == (IF expired THEN 0 ELSE count) + 1
      threshold == config.maxErrorsPerMinute
  IN [ throttled |-> Exceeds(errorCount1, threshold),
       errorCount |-> errorCount1,
       errorWindowStart |-> IF expired THEN t ELSE windowStart,
       events |-> IF Exceeds(errorCount1, threshold) /\ IsOneMoreThan(errorCount1, threshold)
                    THEN << [type |-> "THROTTLE_ACTIVATED", timestamp |-> t,
                             data |-> [errorsPerMinute |-> errorCount1,
                                       threshold |-> threshold]] >>
                    ELSE << >> ]

\* ErrorBoundary.isThrottled at time t: the answer, the counters it leaves and
\* the events it emits
isThrottled(config, count, windowStart, t) ==
  LET expired == t - windowStart > windowMs
      errorCount1 == (IF expired THEN 0 ELSE count) + 1
      threshold == config.maxErrorsPerMinute
  IN [ throttled |-> Exceeds(errorCount1, threshold),
       errorCount |-> errorCount1,
       errorWindowStart |-> IF expired THEN t ELSE windowStart,
       events |-> IF Exceeds(errorCount1, threshold) /\ IsOneMoreThan(errorCount1, threshold)
                    THEN << [type |-> "THROTTLE_ACTIVATED", timestamp |-> t,
                             data |-> [errorsPerMinute |-> errorCount1,
                                       threshold |-> threshold]] >>
                    ELSE << >> ]

\* value[key], undefined where value is undefined or has no such property
Get(value, key) ==
  IF value.t = "object" /\ \E i \in 1..Len(value.entries) : value.entries[i].key = key
    THEN value.entries[CHOOSE i \in 1..Len(value.entries) : value.entries[i].key = key].val
    ELSE VUndefined

\* What processError leaves behind: how it ended, the limiter's counters, the
\* calls made on datadogLogs and on datadogRum, and the events emitted.
Outcome(result, throttle, logs, rum, events) ==
  [ result |-> result, errorCount |-> throttle.errorCount,
    errorWindowStart |-> throttle.errorWindowStart,
    logs |-> logs, rum |-> rum, events |-> events ]

\* processError from the point where the error is neither ignored nor
\* throttled, the context is enriched and the logger has been called
Processed(rumInit, throttle, error, source, handled, enrichedContext, logged, t) ==
  IF IsThrow(logged.result)
    THEN Outcome(logged.result, throttle, logged.logs, << >>,
                 throttle.events \o logged.events)
  ELSE Outcome(VUndefined, throttle, logged.logs,
               addError(rumInit, error, enrichedContext),
               throttle.events \o logged.events
                 \o << [type |-> "ERROR_CAPTURED", timestamp |-> t,
                        data |-> [error |-> error, source |-> source,
                                  context |-> enrichedContext,
                                  handled |-> handled]] >>)

\* processError once isThrottled has answered
Admitted(this, config, contextManager, logsInit, rumInit, throttle, h, error, source, handled, enrichedContext, t) ==
  IF throttle.throttled
    THEN Outcome(VUndefined, throttle, << >>, << >>, throttle.events)
  ELSE Processed(rumInit, throttle, error, source, handled, enrichedContext,
                 log(this, config, contextManager, logsInit, h, "error",
                     <<"[">> \o source \o <<"]", " ">> \o h[error.id].message,
                     error, enrichedContext, t),
                 t)

\* processError, had it consulted the limiter before the ignore patterns
processErrorCountingIgnored(this, config, contextManager, logsInit, rumInit, count, windowStart, h, error, source, handled, context, t) ==
  IF shouldIgnore(config, h[error.id])
    THEN Outcome(VUndefined, isThrottled(config, count, windowStart, t),
                 << >>, << >>, isThrottled(config, count, windowStart, t).events)
  ELSE Admitted(this, config, contextManager, logsInit, rumInit,
                isThrottled(config, count, windowStart, t),
                h, error, source, handled,
                Obj(Spread(EntriesOf(h, context),
                           << Entry(K_error_source, VStr(source)),
                              Entry(K_handled, VBool(handled)),
                              Entry(K_url, VStr(S_href)),
                              Entry(K_view, getView(contextManager)),
                              Entry(K_user_id, Get(getUser(contextManager), K_id)) >>)),
                t)

\* ErrorBoundary.processError(error, source, handled, context) at time t
processError(this, config, contextManager, logsInit, rumInit, count, windowStart, h, error, source, handled, context, t) ==
  IF shouldIgnore(config, h[error.id])
    THEN Outcome(VUndefined, [errorCount |-> count, errorWindowStart |-> windowStart],
                 << >>, << >>, << >>)
  ELSE Admitted(this, config, contextManager, logsInit, rumInit,
                isThrottled(config, count, windowStart, t),
                h, error, source, handled,
                Obj(Spread(EntriesOf(h, context),
                           << Entry(K_error_source, VStr(source)),
                              Entry(K_handled, VBool(handled)),
                              Entry(K_url, VStr(S_href)),
                              Entry(K_view, getView(contextManager)),
                              Entry(K_user_id, Get(getUser(contextManager), K_id)) >>)),
                t)

(***************************************************************************)
(* The values the callers pass.  An input of sanitize is a chain of nested *)
(* containers (object, array, Error with its cause) that ends in a leaf or *)
(* in a reference back into the chain, the root holding one more entry.    *)
(***************************************************************************)
\* The longest chain of nested containers of an input.
MaxChain == 2
\* A configured maximum depth and string length small enough to be exceeded.
SmallDepth == 1
SmallStringLength == 12
\* The most segments of a string passed to sanitizeString.
MaxSegments == 2

K_data == <<"d","a","t","a">>
K_extra == <<"e","x","t","r","a">>
K_userId == <<"u","s","e","r","I","d">>
K_password == <<"p","a","s","s","w","o","r","d">>
K_access_token == <<"a","c","c","e","s","s","_","t","o","k","e","n">>
K_access_dash_token == <<"a","c","c","e","s","s","-","t","o","k","e","n">>
K_accessToken == <<"a","c","c","e","s","s","T","o","k","e","n">>
K_ACCESSTOKEN == <<"A","C","C","E","S","S","T","O","K","E","N">>
K_API_KEY == <<"A","P","I","-","K","E","Y">>
K_userEmail == <<"u","s","e","r","E","m","a","i","l">>
K_user_email == <<"u","s","e","r","_","e","m","a","i","l">>

S_errMessage == <<"f","a","i","l"," ","a","@","b",".","c","o">>
S_errStack == <<"a","t"," ","f"," ","(","a","p","p",".","j","s",":","1",")">>
S_pii == <<"a","@","b",".","c","o"," ","5","5","5","-","1","2","3","-","4","5","6","7">>
S_long == <<"0","1","2","3","4","5","6","7","8","9","a","b","c","d","e","f">>
S_fn == <<"(",")"," ","=",">"," ","1">>

Seg_user == <<"u","s","e","r"," ">>
Seg_email == <<"j","o","h","n","@","e","x","a","m","p","l","e",".","c","o","m">>
Seg_maskedEmail == <<"j","*","*","*","@","e","x","a","m","p","l","e",".","c","o","m">>
Seg_phone == <<"5","5","5","-","1","2","3","-","4","5","6","7">>
Seg_phoneSpaced == <<"5","5","5"," ","1","2","3"," ","4","5","6","7">>
Seg_card == <<"4","1","1","1"," ","1","1","1","1"," ","1","1","1","1"," ","1","1","1","1">>
Seg_cardPlain == <<"4","1","1","1","1","1","1","1","1","1","1","1","1","1","1","1">>
Seg_ssn == <<"1","2","3","-","4","5","-","6","7","8","9">>
Seg_comma == <<",", " ">>
Seg_word == <<"o","k">>

\* "Login failed for user j***@example.com, card 4111 1111 1111 1111"
LoginFailedMessage == <<"L","o","g","i","n"," ","f","a","i","l","e","d"," ","f","o","r"," ">>
                        \o Seg_user \o Seg_maskedEmail \o Seg_comma
                        \o <<"c","a","r","d"," ">> \o Seg_card

EmailSegments == { Seg_email, Seg_maskedEmail }
PhoneSegments == { Seg_phone }
CardSegments == { Seg_card, Seg_cardPlain }
Segments == EmailSegments \cup PhoneSegments \cup CardSegments
              \cup { Seg_user, Seg_phoneSpaced, Seg_ssn, Seg_comma, Seg_word }

RECURSIVE Concat(_)
Concat(segs) == IF segs = << >> THEN << >> ELSE Head(segs) \o Concat(Tail(segs))

SegmentLists == UNION { [1..n -> Segments] : n \in 1..MaxSegments }

\* The strings passed to sanitizeString, each with the segments it was built of.
StringInputs ==
  { [s |-> Concat(l), parts |-> Range(l)] : l \in SegmentLists }
    \cup { [s |-> LoginFailedMessage, parts |-> {Seg_user, Seg_maskedEmail, Seg_comma, Seg_card}] }

\* The keys tried on the innermost object of the chain.
Keys == { K_userId, K_password, K_access_token, K_access_dash_token,
          K_accessToken, K_ACCESSTOKEN, K_API_KEY, K_userEmail, K_user_email }

Kinds == { "object", "array", "error" }
KindChains == UNION { [1..n -> Kinds] : n \in 1..MaxChain }

Leaves == { VUndefined, VNum(0), VNum(1), VStr(S_pii), VStr(S_long),
            VDate(TRUE), VDate(FALSE), VOther(S_fn) }

\* { id: 1 }: an object with nothing sensitive in it, the last node of every heap.
PlainObject == Obj(<< Entry(K_id, VNum(1)) >>)

\* Node i of the chain: a container of kind kinds[i] that holds child, and, in
\* the root, the sibling after it.
ChainNode(kind, key, child, sibling) ==
  CASE kind = "object" ->
         Obj(<< Entry(key, child) >>
               \o IF sibling = VUndefined THEN << >> ELSE << Entry(K_extra, sibling) >>)
    [] kind = "array" ->
         Arr(<< child >> \o IF sibling = VUndefined THEN << >> ELSE << sibling >>)
    [] kind = "error" ->
         Err(S_Error, S_errMessage,
             IF sibling = VUndefined THEN VUndefined ELSE VStr(S_errStack), child, << >>)

\* The heap of a chain: nodes 1..n nested in one another, node n + 1 the plain object.
ChainHeap(kinds, key, terminal, sibling) ==
  LET n == Len(kinds)
  IN [ i \in 1..(n + 1) |->
         IF i = n + 1 THEN PlainObject
         ELSE ChainNode(kinds[i],
                        IF i = n THEN key ELSE K_data,
                        IF i = n THEN terminal ELSE VRef(i + 1),
                        IF i = 1 THEN sibling ELSE VUndefined) ]

\* Every heap the callers pass; the root is node 1.
Heaps ==
  { ChainHeap(kinds, key, terminal, sibling) :
      kinds \in KindChains,
      key \in Keys,
      terminal \in Leaves \cup { VRef(j) : j \in 1..(MaxChain + 1) },
      sibling \in { VUndefined, VRef(1), VRef(2) } }

WellFormed(h) ==
  \A i \in DOMAIN h :
    LET vals == CASE h[i].t = "object" -> { h[i].entries[k].val : k \in DOMAIN h[i].entries }
                  [] h[i].t = "array" -> Range(h[i].items)
                  [] h[i].t = "error" -> { h[i].cause }
    IN \A v \in vals : v.t = "ref" => v.id \in DOMAIN h

\* The constructor arguments the callers use: the defaults, LoggerService's
\* piiFields, and small limits.
OptionSets ==
  { [piiFields |-> f, maxDepth |-> l[1], maxStringLength |-> l[2]] :
      f \in { {}, {K_userEmail} },
      l \in { << MAX_DEPTH, MAX_STRING_LENGTH >>, << SmallDepth, SmallStringLength >> } }

(***************************************************************************)
(* Inputs of the error path.                                               *)
(***************************************************************************)
\* The largest maxErrorsPerMinute configured.
MaxThreshold == 2
\* The errors captured in one window are counted up to this.
MaxErrorCount == 3
\* The clock moves by one millisecond, or by a whole window, up to this many
\* times each.
MaxTicks == 1
MaxWindows == 1

K_when == <<"w","h","e","n">>
K_token == <<"t","o","k","e","n">>
S_timeout == <<"t","i","m","e","o","u","t">>
S_p4ss == <<"p","4","s","s">>
S_u1 == <<"u","-","1">>
S_userEmail == <<"j","o","h","n","@","e","x","a","m","p","l","e",".","c","o","m">>
S_ignored == <<"R","e","s","i","z","e","O","b","s","e","r","v","e","r"," ","l","o","o","p">>
S_ResizeObserver == <<"R","e","s","i","z","e","O","b","s","e","r","v","e","r">>
S_secretToken == <<"t","o","k","-","1","2","3">>
S_web == <<"w","e","b">>
S_prod == <<"p","r","o","d">>
S_1_0_0 == <<"1",".","0",".","0">>

\* The objects the application holds: four errors (a plain one, one an ignore
\* pattern matches, one with a cause and a property of its own, one that is its
\* own cause) and two context mappings.
FlowHeap ==
  << Err(S_Error, S_errMessage, VStr(S_errStack), VUndefined, << >>),
     Err(S_Error, S_ignored, VStr(S_errStack), VUndefined, << >>),
     Err(S_Error, S_timeout, VStr(S_errStack), VRef(1),
         << Entry(K_token, VStr(S_secretToken)) >>),
     Err(S_Error, S_timeout, VStr(S_errStack), VRef(4), << >>),
     Obj(<< Entry(K_password, VStr(S_p4ss)), Entry(K_userId, VStr(S_u1)) >>),
     Obj(<< Entry(K_when, VDate(FALSE)) >>) >>

\* The calls of captureError the application makes: the error and the context.
Captures ==
  { << VRef(1), VUndefined >>, << VRef(1), VRef(5) >>, << VRef(1), VRef(6) >>,
    << VRef(2), VUndefined >>, << VRef(3), VRef(5) >>, << VRef(4), VUndefined >> }

Users == { Obj(<< Entry(K_id, VStr(S_u1)), Entry(K_email, VStr(S_userEmail)) >>) }

\* ConfigManager.validate: the errors it collects for a configuration whose
\* required fields are present and whose sampling rates are in range
validate(config) ==
  IF config.maxErrorsPerMinute # VUndefined /\ LessThanOne(config.maxErrorsPerMinute)
    THEN { "errorTracking.maxErrorsPerMinute must be >= 1" }
    ELSE {}

\* The values given for maxErrorsPerMinute: whole numbers and halves.
Thresholds ==
  { Fraction(n, 1) : n \in 0..MaxThreshold }
    \cup { Fraction(2 * n - 1, 2) : n \in 1..MaxThreshold }

\* The resolved configurations: the fields the error path reads, of the
\* configurations that validate accepts.
Configs ==
  { config \in
      { [ service |-> S_web, env |-> S_prod, version |-> S_1_0_0,
          logLevel |-> level, maxErrorsPerMinute |-> threshold,
          ignorePatterns |-> {S_ResizeObserver}, piiFields |-> {} ] :
          level \in {"debug", "critical"}, threshold \in Thresholds } :
      validate(config) = {} }

(***************************************************************************)
(* withRetry and the request that ResourceProvisioner.apiRequest retries.  *)
(* A settled promise is Fulfilled(value) or Rejected(reason); an Error     *)
(* thrown by an attempt carries the attempt that created it, which is its  *)
(* identity.                                                               *)
(***************************************************************************)
Fulfilled(value) == [state |-> "fulfilled", value |-> value]
Rejected(reason) == [state |-> "rejected", value |-> reason]
ErrorOf(name, message, at) == [t |-> "error", name |-> name, message |-> message, at |-> at]

DEFAULT_OPTIONS == [maxAttempts |-> 3, baseDelay |-> 1000, maxDelay |-> 30000, backoffMultiplier |-> 2]

\* { ...DEFAULT_OPTIONS, ...options }
RetryConfig(retryOptions) == retryOptions @@ DEFAULT_OPTIONS

RECURSIVE MathPow(_, _)
MathPow(base, exponent) == IF exponent = 0 THEN 1 ELSE base * MathPow(base, exponent - 1)

MathMin(a, b) == IF a <= b THEN a ELSE b

\* The delay computed after the attempt-th failure
Delay(cfg, attempt) ==
  MathMin(cfg.baseDelay * MathPow(cfg.backoffMultiplier, attempt - 1), cfg.maxDelay)

\* delay * (0.5 + Math.random() * 0.5): the least and the greatest whole number
\* of milliseconds in [delay / 2, delay)
Jitters(delay) ==
  IF delay = 0 THEN {0}
  ELSE { jitter \in {(delay + 1) \div 2, delay - 1} : 2 * jitter >= delay /\ jitter < delay }

\* The number n as the template literal writes it
RECURSIVE NumberToString(_)
NumberToString(n) ==
  IF n < 10 THEN << DigitChars[n + 1] >>
  ELSE NumberToString(n \div 10) \o << DigitChars[(n % 10) + 1] >>

S_429 == <<"4","2","9">>
S_5 == <<"5">>
S_DatadogApiError == <<"D","a","t","a","d","o","g"," ","A","P","I"," ","e","r","r","o","r"," ">>
S_FailedToFetch == <<"F","a","i","l","e","d"," ","t","o"," ","f","e","t","c","h">>
S_notFound == <<"n","o","t"," ","f","o","u","n","d">>
S_quota == <<"q","u","o","t","a"," ","o","f"," ","5"," ","u","s","e","d">>
S_boom == <<"b","o","o","m">>
S_done == <<"d","o","n","e">>

\* What fetch settles with: a network failure, or a response
NetworkFailure == [kind |-> "network", error |-> ErrorOf("TypeError", S_FailedToFetch, 0)]
Response(status, body) == [kind |-> "response", status |-> status, body |-> body]
ResponseOk(response) == 200 <= response.status /\ response.status <= 299

\* The async function apiRequest hands to withRetry, for what fetch gave at
\* the attempt-th call
request(fetched, attempt) ==
  IF fetched.kind = "network"
    THEN Rejected([fetched.error EXCEPT !.at = attempt])
  ELSE IF ~ResponseOk(fetched)
    THEN Rejected(ErrorOf("Error",
                          S_DatadogApiError \o NumberToString(fetched.status)
                            \o <<":", " ">> \o fetched.body,
                          attempt))
  ELSE Fulfilled(VStr(fetched.body))

\* The shouldRetry of apiRequest
apiShouldRetry(error, attempt) ==
  \/ error.t = "error" /\ Includes(error.message, S_429)
  \/ error.t = "error" /\ Includes(error.message, S_5)

\* A shouldRetry given as the answers by attempt
TableShouldRetry(table, error, attempt) == table[attempt]

\* config.shouldRetry && !config.shouldRetry(error, attempt)
Declines(cfg, error, attempt) ==
  /\ "shouldRetry" \in DOMAIN cfg
  /\ ~ ( IF cfg.shouldRetry.kind = "apiRequest"
           THEN apiShouldRetry(error, attempt)
           ELSE TableShouldRetry(cfg.shouldRetry.table, error, attempt) )

\* The catch block with the test of shouldRetry left out
BreaksOnLastOnly(cfg, error, attempt) == attempt = cfg.maxAttempts

\* The catch block of withRetry: whether the loop is left after the failure
Breaks(cfg, error, attempt) ==
  \/ attempt = cfg.maxAttempts
  \/ Declines(cfg, error, attempt)

\* lastError = error
Caught(previous, error) == error

\* A timer that fires as soon as it is set
TimerDueAtOnce(deadline, time) == TRUE

\* setTimeout(resolve, ms): the timer does not fire before its time
TimerDue(deadline, time) == time >= deadline

(***************************************************************************)
(* Inputs of withRetry.                                                    *)
(***************************************************************************)
\* The largest maxAttempts given, and the greatest time the clock shows.
MaxAttempts == 3
MaxClock == 3000
\* The base delay and the cap given where the defaults are not taken.
SmallBaseDelay == 2
SmallMaxDelay == 3

\* The options of the callers: any of the fields may be left out.
RetryOptionSets ==
  { attempts @@ predicate @@ delays :
      attempts \in { << >> } \cup { [maxAttempts |-> k] : k \in 0..MaxAttempts },
      predicate \in { << >> }
                     \cup { [shouldRetry |-> [kind |-> "table", table |-> table]] :
                              table \in [1..MaxAttempts -> BOOLEAN] },
      delays \in { << >>, [baseDelay |-> SmallBaseDelay, maxDelay |-> SmallMaxDelay] } }

\* The options apiRequest passes
ApiRequestOptions == [maxAttempts |-> 3, shouldRetry |-> [kind |-> "apiRequest"]]

\* What fetch gives to a request
Fetches ==
  { NetworkFailure, Response(200, S_done), Response(404, S_notFound),
    Response(404, S_quota), Response(405, << >>), Response(429, << >>),
    Response(503, << >>) }

\* What may happen to a call of fn, and what the attempt-th call then settles
\* with
Occurrences(fn) == IF fn = "request" THEN Fetches ELSE { "resolves", "rejects" }

Settles(fn, occurrence, attempt) ==
  IF fn = "request" THEN request(occurrence, attempt)
  ELSE IF occurrence = "resolves" THEN Fulfilled(VStr(S_done))
  ELSE Rejected(ErrorOf("Error", S_boom, attempt))

(***************************************************************************)
(* EventEmitter and the life of the SDK: handlers are subscribed and       *)
(* unsubscribed, events are emitted, and destroy() tears the plugins down. *)
(* listeners maps an event to its handlers in the order they were added;   *)
(* a handler is its identity and what its body does.                       *)
(***************************************************************************)
DESTROYED == "sdk:destroyed"
CONSENT_GRANTED == "sdk:consent_granted"
SDKEvents == { DESTROYED, CONSENT_GRANTED }

EventHandler(id, body) == [id |-> id, body |-> body]

\* EventEmitter.on(event, handler): a Set keeps one of each handler
on(ls, event, handler) ==
  IF \E k \in DOMAIN ls[event] : ls[event][k] = handler THEN ls
  ELSE [ls EXCEPT ![event] = Append(@, handler)]

\* EventEmitter.off(event, handler)
off(ls, event, handler) == [ls EXCEPT ![event] = SelectSeq(@, LAMBDA h : h # handler)]

\* EventEmitter.removeAllListeners()
removeAllListeners(ls) == [event \in DOMAIN ls |-> << >>]

\* handler(payload): how the call ends
Invoke(handler) ==
  IF handler.body = "throws" THEN Throw("handler error") ELSE VUndefined

\* A call of the handler with no try around it
Unguarded(ended) == ended

\* try { handler(payload) } catch { }: how the statement ends
Guarded(ended) == VUndefined

\* The loop of emit from the k-th handler on: the handlers invoked and how the
\* loop ends
RECURSIVE EmitFrom(_, _, _)
EmitFrom(handlers, k, invoked) ==
  IF k > Len(handlers) THEN [invoked |-> invoked, result |-> VUndefined]
  ELSE LET ended == Guarded(Invoke(handlers[k]))
       IN IF IsThrow(ended)
            THEN [invoked |-> Append(invoked, handlers[k].id), result |-> ended]
            ELSE EmitFrom(handlers, k + 1, Append(invoked, handlers[k].id))

\* EventEmitter.emit(event, payload)
emit(ls, event) ==
  [event |-> event, registered |-> [k \in DOMAIN ls[event] |-> ls[event][k].id]]
    @@ EmitFrom(ls[event], 1, << >>)

\* The plugins of an SDK instance: teardown is absent ("none"), throws at
\* once ("throws"), or returns a promise ("async").
PluginLists ==
  { << >>, << "async" >>, << "none" >>, << "throws", "async" >>, << "async", "async" >> }

\* The loop of destroy() from the k-th plugin on, up to its next await: the
\* teardowns called and the plugin awaited (past the last: none)
RECURSIVE TeardownFrom(_, _, _)
TeardownFrom(plugins, k, called) ==
  IF k > Len(plugins) THEN [called |-> called, awaits |-> k]
  ELSE IF plugins[k] = "throws" THEN TeardownFrom(plugins, k + 1, Append(called, k))
  ELSE IF plugins[k] = "async" THEN [called |-> Append(called, k), awaits |-> k]
  ELSE [called |-> called, awaits |-> k]

\* The handlers there are, and the calls of destroy() made on one instance.
MaxHandlers == 2
MaxDestroys == 2

EventHandlers ==
  { EventHandler(id, IF id % 2 = 1 THEN "returns" ELSE "throws") : id \in 1..MaxHandlers }

(***************************************************************************)
(* resources/ResourceProvisioner: the resources of a Datadog account, the  *)
(* names the templates give them, and the create/check/skip flow.          *)
(***************************************************************************)
MANAGED_TAG == "managed:datadog-frontend-toolkit"

S_app == <<"a","p","p">>
S_my_app == <<"m","y","-","a","p","p">>
S_dev == <<"d","e","v">>
S_HighFrontendErrorRate == <<"H","i","g","h"," ","F","r","o","n","t","e","n","d"," ","E","r","r","o","r"," ","R","a","t","e">>
S_FrontendAvailability == <<"F","r","o","n","t","e","n","d"," ","A","v","a","i","l","a","b","i","l","i","t","y">>
S_FrontendObservability == <<"F","r","o","n","t","e","n","d"," ","O","b","s","e","r","v","a","b","i","l","i","t","y">>
S_Auto == <<"[","A","u","t","o","]"," ">>

\* The template string service (env)
ServiceEnv(service, env) == service \o <<" ","(">> \o env \o <<")">>

\* buildMonitorTemplates(service, env, ...)[0].name
MonitorName(service, env) == ServiceEnv(service, env) \o <<" ","-"," ">> \o S_HighFrontendErrorRate

\* The name buildSloTemplates gives the SLO of the SLO_MAPPINGS entry
SloName(service, env) == S_Auto \o ServiceEnv(service, env) \o <<" ","-"," ">> \o S_FrontendAvailability

\* buildDashboardPayload(service, env, team).title, and the legacy title
DashboardTitle(service) == service \o <<" ","-"," ">> \o S_FrontendObservability
LegacyDashboardTitle(service, env) == ServiceEnv(service, env) \o <<" ","-"," ">> \o S_FrontendObservability

\* A resource of the account.  service and env tell which call of provision
\* created it; id numbers the resources of one kind and name.
Resource(kind, name, tags, service, env) ==
  [kind |-> kind, name |-> name, tags |-> tags, service |-> service, env |-> env, id |-> 0]

NoResource == [kind |-> "null"]

\* The resources of a kind, and those of them that carry a tag
OfKind(account, kind) == { r \in account : r.kind = kind }
Tagged(account, kind, tag) == { r \in OfKind(account, kind) : tag \in r.tags }

\* Array.prototype.find over a response: the first of the matching resources
FirstOf(found) ==
  IF found = {} THEN NoResource
  ELSE CHOOSE r \in found : \A other \in found : r.id <= other.id

\* A POST that succeeds creates the resource, whatever the account holds
Posted(account, resource) ==
  LET used == { r.id : r \in { x \in account : x.kind = resource.kind /\ x.name = resource.name } }
  IN [resource EXCEPT !.id = CHOOSE n \in 1..(Cardinality(used) + 1) : n \notin used]

\* findExistingDashboard(service, env), the GET succeeding or failing
findExistingDashboard(account, service, env, list) ==
  IF list = "fails" THEN NoResource
  ELSE FirstOf({ d \in OfKind(account, "dashboard") :
                   \/ d.name = DashboardTitle(service)
                   \/ d.name = LegacyDashboardTitle(service, env) })

\* findExistingMonitor(name): by the managed tag, then by name; the GET
\* requests of one search succeed or fail alike
findExistingMonitor(account, name, search) ==
  IF search = "fails" THEN NoResource
  ELSE IF \E m \in Tagged(account, "monitor", MANAGED_TAG) : m.name = name
    THEN FirstOf({ m \in Tagged(account, "monitor", MANAGED_TAG) : m.name = name })
  ELSE FirstOf({ m \in OfKind(account, "monitor") : m.name = name })

\* findExistingSlo(name): by the managed tag, then among all SLOs
findExistingSlo(account, name, search) ==
  IF search = "fails" THEN NoResource
  ELSE IF \E s \in Tagged(account, "slo", MANAGED_TAG) : s.name = name
    THEN FirstOf({ s \in Tagged(account, "slo", MANAGED_TAG) : s.name = name })
  ELSE FirstOf({ s \in OfKind(account, "slo") : s.name = name })

\* What a step of provision gives: the account after it, the resources it
\* reports, those it created, and the number of errors it collected
Provisioned(account, reported, created, errors) ==
  [account |-> account, reported |-> reported, created |-> created, errors |-> errors]

\* The create/check/skip flow for one resource, force not set
CreateCheckSkip(account, existing, resource, post) ==
  IF existing # NoResource THEN Provisioned(account, {existing}, {}, 0)
  ELSE IF post = "fails" THEN Provisioned(account, {}, {}, 1)
  ELSE Provisioned(account \cup {Posted(account, resource)}, {Posted(account, resource)},
                   {Posted(account, resource)}, 0)

\* provisionDashboard(service, env, team, force)
provisionDashboard(account, service, env, io) ==
  CreateCheckSkip(account, findExistingDashboard(account, service, env, io.dashboardList),
                  Resource("dashboard", DashboardTitle(service), {}, service, env),
                  io.dashboardPost)

\* provisionMonitors(service, env, config, force), for the first template
provisionMonitors(account, service, env, io) ==
  CreateCheckSkip(account,
                  findExistingMonitor(account, MonitorName(service, env), io.monitorSearch),
                  Resource("monitor", MonitorName(service, env), {MANAGED_TAG}, service, env),
                  io.monitorPost)

\* provisionSlos(service, env, monitorIds, team, force): buildSloTemplates
\* gives a template when one of the monitors matches the mapping's pattern
provisionSlos(account, service, env, monitorIds, io) ==
  IF ~\E m \in monitorIds : Includes(m.name, S_HighFrontendErrorRate)
    THEN Provisioned(account, {}, {}, 0)
  ELSE CreateCheckSkip(account,
                       findExistingSlo(account, SloName(service, env), io.sloSearch),
                       Resource("slo", SloName(service, env), {}, service, env),
                       io.sloPost)

\* The resources a phase of teardown deletes: those it found, unless the
\* DELETE requests fail
Deleted(found, delete) == IF delete = "fails" THEN {} ELSE found

\* (m.name as string).includes(service (env))
NameMatches(name, pattern) == Includes(name, pattern)

\* teardown(service, env): the managed monitors, then the managed SLOs, whose
\* name includes service (env), then the dashboard
teardown(account, service, env, io) ==
  LET monitors == IF io.monitorList = "fails" THEN {}
                  ELSE { m \in Tagged(account, "monitor", MANAGED_TAG) :
                           NameMatches(m.name, ServiceEnv(service, env)) }
      slos == IF io.sloList = "fails" THEN {}
              ELSE { s \in Tagged(account, "slo", MANAGED_TAG) :
                       NameMatches(s.name, ServiceEnv(service, env)) }
      dashboard == findExistingDashboard(account, service, env, io.dashboardList)
      deleted == Deleted(monitors, io.monitorDelete) \cup Deleted(slos, io.sloDelete)
                   \cup Deleted({dashboard} \ {NoResource}, io.dashboardDelete)
  IN [account |-> account \ deleted, deleted |-> deleted]

\* What the requests of a call may give
Outcomes == { "ok", "fails" }
ProvisionIO == [dashboardList : Outcomes, dashboardPost : Outcomes, monitorSearch : Outcomes, monitorPost : Outcomes, sloSearch : Outcomes, sloPost : Outcomes]
\* No DELETE is sent for a list that was not received.
TeardownIO ==
  { io \in [monitorList : Outcomes, monitorDelete : Outcomes, sloList : Outcomes, sloDelete : Outcomes, dashboardList : Outcomes, dashboardDelete : Outcomes] :
      /\ io.monitorList = "fails" => io.monitorDelete = "ok"
      /\ io.sloList = "fails" => io.sloDelete = "ok"
      /\ io.dashboardList = "fails" => io.dashboardDelete = "ok" }

\* The services and environments the toolkit is run for
Targets == { << S_app, S_prod >>, << S_app, S_dev >>, << S_my_app, S_prod >> }
\* The most resources the account holds
MaxResources == 3

(***************************************************************************)
(* A listener that itself calls captureError: emit calls it inside         *)
(* processError, so the captures nest.                                     *)
(***************************************************************************)
\* The counters of the limiter, as fields of the ErrorBoundary
Counters(count, windowStart) == [errorCount |-> count, errorWindowStart |-> windowStart]

\* The counters a capture made as if isThrottled counted only after the
\* listeners had run
CountersBeforeCheck(before, after) == before

\* The counters a capture made inside a listener finds: isThrottled has
\* counted the check before the event is emitted
CountersAtEmit(before, after) == after

\* The events of these that a capturing listener is subscribed to
Heard(events, capturing) == SelectSeq(events, LAMBDA e : e.type \in capturing)

\* A chain of captures: what the captures left behind together, how many
\* admission checks were made, and whether the call stack was exhausted
Chain(done, checks, overflow) ==
  [ result |-> done.result, errorCount |-> done.errorCount,
    errorWindowStart |-> done.errorWindowStart, logs |-> done.logs, rum |-> done.rum,
    events |-> done.events, checks |-> checks, overflow |-> overflow ]

\* A capture and, after it, the captures made inside it
Nest(done, nested) ==
  Chain([ result |-> done.result, errorCount |-> nested.errorCount,
          errorWindowStart |-> nested.errorWindowStart,
          logs |-> done.logs \o nested.logs, rum |-> done.rum \o nested.rum,
          events |-> done.events \o nested.events ],
        nested.checks + 1, nested.overflow)

\* The calls of processError nested in one another beyond which the chain is
\* taken to go on until the call stack is exhausted
MaxNesting == 6

\* processError(error, 'custom', true, context) with listeners of the events
\* capturing that call captureError(again[1], again[2]); depth counts the
\* calls of processError on the stack.
RECURSIVE Reentrant(_, _, _, _, _, _, _, _, _, _, _, _)
Reentrant(this, config, contextManager, logsInit, rumInit, counters, h, call, again, capturing, t, depth) ==
  IF depth > MaxNesting
    THEN Chain(Outcome(Throw("RangeError: Maximum call stack size exceeded"), counters,
                       << >>, << >>, << >>), 0, TRUE)
  ELSE CHOOSE chain \in
         { IF IsThrow(done.result) \/ Heard(done.events, capturing) = << >>
             THEN Chain(done, IF shouldIgnore(config, h[call[1].id]) THEN 0 ELSE 1, FALSE)
           ELSE Nest(done,
                     Reentrant(this, config, contextManager, logsInit, rumInit,
                               CountersAtEmit(counters, Counters(done.errorCount,
                                                                 done.errorWindowStart)),
                               h, again, again, capturing, t, depth + 1)) :
           done \in { processError(this, config, contextManager, logsInit, rumInit,
                                   counters.errorCount, counters.errorWindowStart,
                                   h, call[1], S_custom, TRUE, call[2], t) } } : TRUE

\* The captures the chains start with: an error, an error that matches an
\* ignore pattern, and an error whose cause refers back to it
OuterCaptures == { << VRef(1), VUndefined >>, << VRef(2), VUndefined >>, << VRef(4), VUndefined >> }

\* The events a listener may capture on
CapturingEvents == { "ERROR_CAPTURED", "THROTTLE_ACTIVATED" }

(***************************************************************************)
(* State: one Sanitizer and the call it last served; around it the error   *)
(* boundary, the logger's managers and what they handed to the Datadog     *)
(* SDKs.                                                                   *)
(***************************************************************************)
VARIABLES
  options,   \* the arguments the Sanitizer was constructed with
  this,      \* the Sanitizer
  op,        \* "idle", or the method that has just returned
  heap,      \* the objects of the argument of the call, as the call left them
  snapshot,  \* the same objects as they were when the call was made
  arg,       \* the argument: a value (sanitize) or a string (sanitizeString)
  parts,     \* the segments the argument of sanitizeString was built of
  result,    \* what the call returned, or the exception it threw
  config,            \* the resolved configuration
  contextManager,    \* ContextManager: globalContext, userContext, viewName
  errorCount,        \* ErrorBoundary.errorCount
  errorWindowStart,  \* ErrorBoundary.errorWindowStart
  now,               \* Date.now()
  logsInitialized,   \* LogsManager.initialized
  rumInitialized,    \* RumManager.initialized
  datadogLogs,       \* the calls the last handler made on datadogLogs
  datadogRum,        \* the calls the last handler made on datadogRum
  emitted,           \* the events the last handler emitted
  admissions         \* where the limiter is observed: the times of the admitted captures

VARIABLES
  retryConfig,  \* withRetry: config, the options over the defaults
  fn,           \* the function retried: "operation", or the "request" of apiRequest
  attempt,      \* the loop counter
  lastError,    \* the error last caught
  pc,           \* "idle", "awaiting fn", "sleeping", "fulfilled" or "rejected"
  settled,      \* what the promise of withRetry settled with
  clock,        \* the time, in milliseconds
  deadline,     \* the time the timer of sleep is set to
  inFlight,     \* the calls of fn that have not settled
  attempts      \* the calls of fn: when each started and settled, with what,
                \* and the time slept after it

sanitizerVars == << options, this, op, heap, snapshot, arg, parts, result >>
flowVars == << config, contextManager, errorCount, errorWindowStart, now,
               logsInitialized, rumInitialized, datadogLogs, datadogRum, emitted,
               admissions >>
retryVars == << retryConfig, fn, attempt, lastError, pc, settled, clock, deadline,
               inFlight, attempts >>
VARIABLES
  fingerprinted, \* the calls of generateErrorFingerprint made: error, time, result
  listeners,     \* EventEmitter.listeners
  notified,      \* the last emit: the event, the handlers registered, those invoked
  plugins,       \* config.plugins: what the teardown of each does
  destroyed,     \* ObservabilitySDK.destroyed
  torndown,      \* how often the teardown of each plugin was called
  destroys,      \* the calls of destroy(): where each stands
  datadog,       \* the resources of the Datadog account
  lastRun,       \* the last call of the provisioner: its arguments
  reentry        \* the last capture with capturing listeners: the events they
                 \* listen to, the admission checks made, the call stack exhausted

fingerprintVars == << fingerprinted >>
sdkVars == << listeners, notified, plugins, destroyed, torndown, destroys >>
provisionVars == << datadog, lastRun >>
reentryVars == << reentry >>
moreVars == << fingerprintVars, sdkVars, provisionVars, reentryVars >>
vars == << sanitizerVars, flowVars, retryVars, moreVars >>

\* Nothing has been called yet on the SDK with these plugins.
MoreIdle(pluginList) ==
  /\ fingerprinted = << >>
  /\ listeners = [event \in SDKEvents |-> << >>]
  /\ notified = VUndefined
  /\ plugins = pluginList
  /\ destroyed = FALSE
  /\ torndown = [k \in DOMAIN pluginList |-> 0]
  /\ destroys = << >>
  /\ datadog = {}
  /\ lastRun = [op |-> "none"]
  /\ reentry = [capturing |-> {}, checks |-> 0, overflow |-> FALSE, before |-> 0]

\* No call of withRetry has been made.
RetryIdle ==
  /\ retryConfig = << >>
  /\ fn = "none"
  /\ attempt = 0
  /\ lastError = VUndefined
  /\ pc = "idle"
  /\ settled = VUndefined
  /\ clock = 0
  /\ deadline = 0
  /\ inFlight = 0
  /\ attempts = << >>

\* The toolkit as constructed with config: nothing initialised, nothing sent.
Constructed(cfg) ==
  /\ config = cfg
  /\ contextManager = [globalContext |-> << >>, userContext |-> VUndefined,
                       viewName |-> VUndefined]
  /\ errorCount = 0
  /\ now = 0
  /\ errorWindowStart = now
  /\ logsInitialized = FALSE
  /\ rumInitialized = FALSE
  /\ datadogLogs = << >>
  /\ datadogRum = << >>
  /\ emitted = << >>
  /\ admissions = << >>
  /\ RetryIdle

Init ==
  /\ options \in OptionSets
  /\ this = Sanitizer(options.piiFields, options.maxDepth, options.maxStringLength)
  /\ op = "idle"
  /\ heap = << >>
  /\ snapshot = << >>
  /\ arg = VUndefined
  /\ parts = {}
  /\ result = VUndefined
  /\ Constructed(CHOOSE cfg \in Configs :
                   cfg.logLevel = "debug" /\ cfg.maxErrorsPerMinute = Fraction(MaxThreshold, 1))
  /\ MoreIdle(<< >>)

\* sanitize(data), data the root of a heap.
CallSanitize ==
  /\ op = "idle"
  /\ \E h \in Heaps :
       /\ WellFormed(h)
       /\ snapshot' = h
       /\ arg' = VRef(1)
       /\ result' = sanitize(this, h, VRef(1))
       /\ heap' = sanitizeHeap(this, h, VRef(1))
  /\ op' = "sanitize"
  /\ UNCHANGED << options, this, parts, flowVars, retryVars, moreVars >>

\* sanitizeString(value)
CallSanitizeString ==
  /\ op = "idle"
  /\ \E in \in StringInputs :
       /\ arg' = VStr(in.s)
       /\ parts' = in.parts
       /\ result' = VStr(sanitizeString(this, in.s))
  /\ op' = "sanitizeString"
  /\ UNCHANGED << options, this, heap, snapshot, flowVars, retryVars, moreVars >>

\* The caller takes the result; the Sanitizer keeps no state between calls.
Return ==
  /\ op # "idle"
  /\ op' = "idle"
  /\ heap' = << >>
  /\ snapshot' = << >>
  /\ arg' = VUndefined
  /\ parts' = {}
  /\ result' = VUndefined
  /\ UNCHANGED << options, this, flowVars, retryVars, moreVars >>

Next == CallSanitize \/ CallSanitizeString \/ Return

Spec == Init /\ [][Next]_vars

(***************************************************************************)
(* The error path: errors are captured while the clock runs, the managers  *)
(* are initialised and stopped, and the user is set and cleared.           *)
(***************************************************************************)
\* The SDK constructed for some configuration, with these plugins
Booted(pluginList) ==
  /\ MoreIdle(pluginList)
  /\ \E cfg \in Configs :
       /\ Constructed(cfg)
       /\ options = [piiFields |-> cfg.piiFields, maxDepth |-> MAX_DEPTH,
                     maxStringLength |-> MAX_STRING_LENGTH]
  /\ this = Sanitizer(options.piiFields, options.maxDepth, options.maxStringLength)
  /\ op = "idle"
  /\ heap = FlowHeap
  /\ snapshot = FlowHeap
  /\ arg = VUndefined
  /\ parts = {}
  /\ result = VUndefined

InitFlow == Booted(<< >>)

\* ErrorBoundary.captureError(error, context), but for the observer's log
Capture ==
  /\ errorCount < MaxErrorCount
  /\ \E call \in Captures :
       \E done \in { processError(this, config, contextManager, logsInitialized,
                                   rumInitialized, errorCount, errorWindowStart,
                                   heap, call[1], S_custom, TRUE, call[2], now) } :
          /\ arg' = [error |-> call[1], context |-> call[2]]
          /\ result' = done.result
          /\ errorCount' = done.errorCount
          /\ errorWindowStart' = done.errorWindowStart
          /\ datadogLogs' = done.logs
          /\ datadogRum' = done.rum
          /\ emitted' = done.events
  /\ op' = "captureError"
  /\ UNCHANGED << options, this, heap, snapshot, parts, config, contextManager, now,
                  logsInitialized, rumInitialized, retryVars, moreVars >>

\* ErrorBoundary.captureError(error, context)
captureError == Capture /\ UNCHANGED admissions

\* The times of the sequence times that lie less than a window before t.
Recent(times, t) == SelectSeq(times, LAMBDA x : t - x < windowMs)

\* captureError with the limiter observed: an admitted capture is logged with
\* its time, and the log keeps the admissions of the last minute.
captureErrorObserved ==
  /\ Capture
  /\ admissions' =
       IF /\ ~shouldIgnore(config, heap[arg'.error.id])
          /\ ~isThrottled(config, errorCount, errorWindowStart, now).throttled
         THEN Append(Recent(admissions, now), now)
         ELSE Recent(admissions, now)

\* Time passes: a millisecond, or a whole window.
Tick ==
  /\ \E d \in {1, windowMs} :
       /\ (now + d) % windowMs <= MaxTicks
       /\ (now + d) \div windowMs <= MaxWindows
       /\ now' = now + d
  /\ UNCHANGED << sanitizerVars, config, contextManager, errorCount, errorWindowStart,
                  logsInitialized, rumInitialized, datadogLogs, datadogRum, emitted,
                  admissions, retryVars, moreVars >>

\* ContextManager.setUser(user)
setUser ==
  /\ \E user \in Users :
       /\ contextManager' = [contextManager EXCEPT !.userContext = user]
       /\ arg' = user
       /\ emitted' = << [type |-> "USER_SET", timestamp |-> now,
                         data |-> [userId |-> Get(user, K_id)]] >>
  /\ op' = "setUser"
  /\ result' = VUndefined
  /\ datadogLogs' = << >>
  /\ datadogRum' = << >>
  /\ UNCHANGED << options, this, heap, snapshot, parts, config, errorCount, errorWindowStart,
                  now, logsInitialized, rumInitialized,
                  admissions, retryVars, moreVars >>

\* ContextManager.clearUser()
clearUser ==
  /\ contextManager' = [contextManager EXCEPT !.userContext = VUndefined]
  /\ op' = "clearUser"
  /\ arg' = VUndefined
  /\ result' = VUndefined
  /\ datadogLogs' = << >>
  /\ datadogRum' = << >>
  /\ emitted' = << >>
  /\ UNCHANGED << options, this, heap, snapshot, parts, config, errorCount, errorWindowStart,
                  now, logsInitialized, rumInitialized,
                  admissions, retryVars, moreVars >>

\* LogsManager.init()
LogsManager_init ==
  /\ logsInitialized' = TRUE
  /\ datadogLogs' =
       IF logsInitialized THEN << >>
       ELSE LET user == getUser(contextManager)
            IN << [method |-> "init"] >>
               \o IF Truthy(user)
                    THEN << [method |-> "setUser",
                             user |-> Obj(Spread(<< Entry(K_id, Get(user, K_id)),
                                                    Entry(K_name, Get(user, K_name)),
                                                    Entry(K_email, Get(user, K_email)) >>,
                                                 user.entries))] >>
                    ELSE << >>
  /\ op' = "LogsManager.init"
  /\ arg' = VUndefined
  /\ result' = VUndefined
  /\ datadogRum' = << >>
  /\ emitted' = << >>
  /\ UNCHANGED << options, this, heap, snapshot, parts, config, contextManager, errorCount,
                  errorWindowStart, now, rumInitialized,
                  admissions, retryVars, moreVars >>

\* RumManager.init(): its setUser returns at once, initialized being false still
RumManager_init ==
  /\ rumInitialized' = TRUE
  /\ datadogRum' = IF rumInitialized THEN << >> ELSE << [method |-> "init"] >>
  /\ op' = "RumManager.init"
  /\ arg' = VUndefined
  /\ result' = VUndefined
  /\ datadogLogs' = << >>
  /\ emitted' = << >>
  /\ UNCHANGED << options, this, heap, snapshot, parts, config, contextManager, errorCount,
                  errorWindowStart, now, logsInitialized,
                  admissions, retryVars, moreVars >>

\* RumManager.stop()
RumManager_stop ==
  /\ rumInitialized' = FALSE
  /\ op' = "RumManager.stop"
  /\ arg' = VUndefined
  /\ result' = VUndefined
  /\ datadogLogs' = << >>
  /\ datadogRum' = << >>
  /\ emitted' = << >>
  /\ UNCHANGED << options, this, heap, snapshot, parts, config, contextManager, errorCount,
                  errorWindowStart, now, logsInitialized,
                  admissions, retryVars, moreVars >>

NextFlow ==
  \/ captureError
  \/ Tick
  \/ setUser
  \/ clearUser
  \/ LogsManager_init
  \/ RumManager_init
  \/ RumManager_stop

SpecFlow == InitFlow /\ [][NextFlow]_vars

\* The rate limiter alone: errors are captured while the clock runs.
NextLimiter == captureErrorObserved \/ Tick

SpecLimiter == InitFlow /\ [][NextLimiter]_vars

(***************************************************************************)
(* One call of withRetry: fn is called, settles, is caught and slept       *)
(* after, while the clock runs.                                            *)
(***************************************************************************)
\* fn() is called at the top of the loop
Started(time) == [start |-> time, done |-> FALSE, end |-> -1, cause |-> VUndefined, outcome |-> VUndefined, wait |-> 0]

\* The loop of withRetry is entered with the counter at n
Loop(cfg, n, error) ==
  /\ attempt' = n
  /\ IF n <= cfg.maxAttempts
       THEN /\ pc' = "awaiting fn"
            /\ inFlight' = inFlight + 1
            /\ attempts' = Append(attempts, Started(clock))
            /\ settled' = VUndefined
       ELSE /\ pc' = "rejected"
            /\ settled' = Rejected(error)
            /\ UNCHANGED << inFlight, attempts >>

\* withRetry(fn, options) is called with f for fn
Call(f, retryOptions) ==
  /\ pc = "idle"
  /\ fn' = f
  /\ retryConfig' = RetryConfig(retryOptions)
  /\ lastError' = VUndefined
  /\ Loop(RetryConfig(retryOptions), 1, VUndefined)
  /\ UNCHANGED << sanitizerVars, flowVars, moreVars, clock, deadline >>

\* withRetry(fn, options) for some operation
withRetry == \E retryOptions \in RetryOptionSets : Call("operation", retryOptions)

\* ResourceProvisioner.apiRequest(method, path, body)
apiRequest == Call("request", ApiRequestOptions)

\* The call of fn in flight settles: `return await fn()`, or the catch block
fnSettles ==
  /\ pc = "awaiting fn"
  /\ inFlight' = inFlight - 1
  /\ \E occurrence \in Occurrences(fn) :
       \E outcome \in { Settles(fn, occurrence, attempt) } :
         IF outcome.state = "fulfilled"
           THEN /\ pc' = "fulfilled"
                /\ settled' = outcome
                /\ attempts' = [attempts EXCEPT ![Len(attempts)] =
                                  [@ EXCEPT !.done = TRUE, !.end = clock,
                                            !.cause = occurrence, !.outcome = outcome]]
                /\ UNCHANGED << lastError, deadline >>
         ELSE /\ lastError' = Caught(lastError, outcome.value)
              /\ IF Breaks(retryConfig, outcome.value, attempt)
                   THEN /\ pc' = "rejected"
                        /\ settled' = Rejected(lastError')
                        /\ attempts' = [attempts EXCEPT ![Len(attempts)] =
                                          [@ EXCEPT !.done = TRUE, !.end = clock,
                                                    !.cause = occurrence,
                                                    !.outcome = outcome]]
                        /\ UNCHANGED deadline
                   ELSE \E jitter \in Jitters(Delay(retryConfig, attempt)) :
                          /\ pc' = "sleeping"
                          /\ deadline' = clock + jitter
                          /\ settled' = VUndefined
                          /\ attempts' = [attempts EXCEPT ![Len(attempts)] =
                                            [@ EXCEPT !.done = TRUE, !.end = clock,
                                                      !.cause = occurrence,
                                                      !.outcome = outcome,
                                                      !.wait = jitter]]
  /\ UNCHANGED << sanitizerVars, flowVars, moreVars, retryConfig, fn, attempt, clock >>

\* The timer of sleep fires and the loop goes round
sleepEnds ==
  /\ pc = "sleeping"
  /\ TimerDue(deadline, clock)
  /\ Loop(retryConfig, attempt + 1, lastError)
  /\ UNCHANGED << sanitizerVars, flowVars, moreVars, retryConfig, fn, lastError, clock, deadline >>

\* The time of the last call or settlement of fn
LastEvent ==
  IF attempts = << >> THEN 0
  ELSE Max({ attempts[Len(attempts)].start, attempts[Len(attempts)].end })

\* Time passes: a millisecond, or all the time left to sleep.
RetryTick ==
  /\ pc \in {"awaiting fn", "sleeping"}
  /\ \E d \in {1} \cup (IF pc = "sleeping" /\ deadline > clock THEN {deadline - clock} ELSE {}) :
       /\ clock + d <= MaxClock
       /\ d = 1 => clock - LastEvent < MaxTicks
       /\ clock' = clock + d
  /\ UNCHANGED << sanitizerVars, flowVars, moreVars, retryConfig, fn, attempt, lastError, pc, settled,
                  deadline, inFlight, attempts >>

NextRetry == withRetry \/ apiRequest \/ fnSettles \/ sleepEnds \/ RetryTick

\* withRetry reads nothing of the toolkit's configuration: one will do.
InitRetry == InitFlow /\ config.logLevel = "debug" /\ config.maxErrorsPerMinute = Fraction(1, 1)

SpecRetry == InitRetry /\ [][NextRetry]_vars

(***************************************************************************)
(* Fingerprints are computed for errors while the clock runs.              *)
(***************************************************************************)
\* The fingerprints kept of one behaviour.
MaxFingerprints == 2

S_frameApp == <<"a","t"," ","f"," ","(","a","p","p",".","j","s",":","1",")">>
S_frameLib == <<"a","t"," ","g"," ","(","n","o","d","e","_","m","o","d","u","l","e","s","/","x",".","j","s",":","2",")">>
S_header == <<"E","r","r","o","r",":"," ","b","o","o","m">>

\* The errors fingerprinted: with and without name, message and stack, and
\* stacks that differ in their header and library frames only.
FingerprintErrors ==
  { Err(S_Error, S_boom, VUndefined, VUndefined, << >>),
    Err(<< >>, S_boom, VStr(S_frameApp), VUndefined, << >>),
    Err(S_Error, << >>, VStr(S_frameApp), VUndefined, << >>),
    Err(S_Error, S_boom, VStr(S_frameApp), VUndefined, << >>),
    Err(S_Error, S_boom,
        VStr(S_header \o <<"\n", " ", " ">> \o S_frameLib \o <<"\n", " ", " ">> \o S_frameApp),
        VUndefined, << >>),
    Err(S_Error, S_boom, VStr(S_header \o <<"\n", " ", " ">> \o S_frameLib), VUndefined, << >>) }

\* generateErrorFingerprint(error) is called
callFingerprint ==
  /\ Len(fingerprinted) < MaxFingerprints
  /\ \E error \in FingerprintErrors :
       fingerprinted' = Append(fingerprinted,
                               [error |-> error, at |-> now,
                                fingerprint |-> generateErrorFingerprint(error)])
  /\ UNCHANGED << sanitizerVars, flowVars, retryVars, sdkVars, provisionVars, reentryVars >>

NextFingerprint == callFingerprint \/ Tick

SpecFingerprint == InitRetry /\ [][NextFingerprint]_vars

(***************************************************************************)
(* The SDK in use: handlers come and go, consent is granted, destroy() is  *)
(* called and the teardowns it awaits settle.                              *)
(***************************************************************************)
\* ObservabilitySDK.onEvent(event, handler), for one of these events
onEventAmong(events) ==
  /\ \E event \in events, handler \in EventHandlers :
       listeners' = on(listeners, event, handler)
  /\ UNCHANGED << sanitizerVars, flowVars, retryVars, fingerprintVars, provisionVars, reentryVars, notified, plugins,
                  destroyed, torndown, destroys >>

\* ObservabilitySDK.offEvent(event, handler), for one of these events
offEventAmong(events) ==
  /\ \E event \in events, handler \in EventHandlers :
       listeners' = off(listeners, event, handler)
  /\ UNCHANGED << sanitizerVars, flowVars, retryVars, fingerprintVars, provisionVars, reentryVars, notified, plugins,
                  destroyed, torndown, destroys >>

onEvent == onEventAmong(SDKEvents)
offEvent == offEventAmong(SDKEvents)
onDestroyed == onEventAmong({ DESTROYED })
offDestroyed == offEventAmong({ DESTROYED })

\* ObservabilitySDK.grantConsent()
grantConsent ==
  /\ notified' = emit(listeners, CONSENT_GRANTED)
  /\ UNCHANGED << sanitizerVars, flowVars, retryVars, fingerprintVars, provisionVars, reentryVars, listeners, plugins,
                  destroyed, torndown, destroys >>

\* The teardown counts after the plugins of called were torn down once more
Bump(counts, called) ==
  [k \in DOMAIN counts |-> counts[k] + Cardinality({ i \in DOMAIN called : called[i] = k })]

\* The identities of the handlers of an event
HandlerIds(ls, event) == [k \in DOMAIN ls[event] |-> ls[event][k].id]

\* A call of destroy() that has passed the test of destroyed
Destroying(subscribed) == [state |-> "awaiting", awaits |-> 0, subscribed |-> subscribed, remaining |-> << >>, invoked |-> << >>]

\* destroy(), the i-th call of it, runs from the k-th plugin to its next
\* await, or to its end
Proceed(i, call, k) ==
  \E run \in { TeardownFrom(plugins, k, << >>) } :
    /\ torndown' = Bump(torndown, run.called)
    /\ IF run.awaits <= Len(plugins)
         THEN /\ destroys' = [j \in 1..Max({i, Len(destroys)}) |->
                                IF j = i THEN [call EXCEPT !.awaits = run.awaits]
                                ELSE destroys[j]]
              /\ UNCHANGED << listeners, notified, destroyed, rumInitialized >>
         ELSE /\ rumInitialized' = FALSE
              /\ listeners' = removeAllListeners(listeners)
              /\ destroyed' = TRUE
              /\ notified' = emit(listeners', DESTROYED)
              /\ destroys' = [j \in 1..Max({i, Len(destroys)}) |->
                                IF j = i
                                  THEN [call EXCEPT !.state = "done",
                                                    !.remaining = HandlerIds(listeners, DESTROYED),
                                                    !.invoked = notified'.invoked]
                                ELSE destroys[j]]

\* ObservabilitySDK.destroy() is called
destroy ==
  /\ Len(destroys) < MaxDestroys
  /\ IF destroyed
       THEN /\ destroys' = Append(destroys, [Destroying(<< >>) EXCEPT !.state = "returned"])
            /\ UNCHANGED << listeners, notified, destroyed, torndown, rumInitialized >>
       ELSE Proceed(Len(destroys) + 1, Destroying(HandlerIds(listeners, DESTROYED)), 1)
  /\ UNCHANGED << sanitizerVars, retryVars, fingerprintVars, provisionVars, reentryVars, plugins, config, contextManager,
                  errorCount, errorWindowStart, now, logsInitialized, datadogLogs,
                  datadogRum, emitted, admissions >>

\* The promise a call of destroy() awaits settles, and the call goes on
teardownSettles ==
  /\ \E i \in DOMAIN destroys :
       /\ destroys[i].state = "awaiting"
       /\ Proceed(i, destroys[i], destroys[i].awaits + 1)
  /\ UNCHANGED << sanitizerVars, retryVars, fingerprintVars, provisionVars, reentryVars, plugins, config, contextManager,
                  errorCount, errorWindowStart, now, logsInitialized, datadogLogs,
                  datadogRum, emitted, admissions >>

\* Handlers of any event come and go, and consent is granted.
NextEmitter == onEvent \/ offEvent \/ grantConsent

SpecEmitter == InitRetry /\ [][NextEmitter]_vars

\* Handlers of sdk:destroyed come and go while the SDK is destroyed.
NextSdk == onDestroyed \/ offDestroyed \/ destroy \/ teardownSettles

\* The SDK with any of the plugin lists; the managers are initialised.
InitSdk ==
  /\ \E pluginList \in PluginLists : Booted(pluginList)
  /\ config.logLevel = "debug"
  /\ config.maxErrorsPerMinute = Fraction(1, 1)

SpecSdk == InitSdk /\ [][NextSdk]_vars

(***************************************************************************)
(* The provisioner run against one Datadog account, for any service and    *)
(* environment, each request of a run succeeding or failing.               *)
(***************************************************************************)
\* ResourceProvisioner.provision(service, env, config), with dashboards,
\* monitors and SLOs enabled
callProvision ==
  /\ \E target \in Targets, io \in ProvisionIO :
      \E service \in { target[1] }, env \in { target[2] } :
       \E dashboard \in { provisionDashboard(datadog, service, env, io) } :
         \E monitorResults \in { provisionMonitors(dashboard.account, service, env, io) } :
           \E sloResults \in { provisionSlos(monitorResults.account, service, env,
                                              monitorResults.reported, io) } :
             /\ Cardinality(sloResults.account) <= MaxResources
             /\ datadog' = sloResults.account
             /\ lastRun' = [op |-> "provision", service |-> service, env |-> env]
  /\ UNCHANGED << sanitizerVars, flowVars, retryVars, fingerprintVars, sdkVars, reentryVars >>

\* ResourceProvisioner.teardown(service, env)
callTeardown ==
  /\ \E target \in Targets, io \in TeardownIO :
      \E service \in { target[1] }, env \in { target[2] } :
       \E done \in { teardown(datadog, service, env, io) } :
         /\ datadog' = done.account
         /\ lastRun' = [op |-> "teardown", service |-> service, env |-> env]
  /\ UNCHANGED << sanitizerVars, flowVars, retryVars, fingerprintVars, sdkVars, reentryVars >>

NextProvision == callProvision \/ callTeardown

SpecProvision == InitRetry /\ [][NextProvision]_vars

(***************************************************************************)
(* Captures with listeners that capture in their turn.                     *)
(***************************************************************************)
\* ErrorBoundary.captureError(error, context) while listeners of the events
\* capturing call captureError themselves
captureErrorReentrant ==
  /\ errorCount < MaxErrorCount
  /\ \E call \in OuterCaptures, capturing \in (SUBSET CapturingEvents) \ {{}} :
       \E chain \in { Reentrant(this, config, contextManager, logsInitialized,
                                rumInitialized, Counters(errorCount, errorWindowStart),
                                heap, call, << VRef(1), VUndefined >>, capturing, now, 1) } :
          /\ arg' = [error |-> call[1], context |-> call[2]]
          /\ result' = chain.result
          /\ errorCount' = chain.errorCount
          /\ errorWindowStart' = chain.errorWindowStart
          /\ datadogLogs' = chain.logs
          /\ datadogRum' = chain.rum
          /\ emitted' = chain.events
          /\ reentry' = [capturing |-> capturing, checks |-> chain.checks,
                         overflow |-> chain.overflow, before |-> errorCount]
  /\ op' = "captureError"
  /\ UNCHANGED << options, this, heap, snapshot, parts, config, contextManager, now,
                  logsInitialized, rumInitialized, admissions, retryVars, fingerprintVars,
                  sdkVars, provisionVars >>

NextReentrant == captureErrorReentrant \/ Tick

\* Any threshold, the log level "debug"
InitReentrant == InitFlow /\ config.logLevel = "debug"

SpecReentrant == InitReentrant /\ [][NextReentrant]_vars

(***************************************************************************)
(* Reading a result against its argument                                   *)
(***************************************************************************)
Returned(method) == op = method /\ ~IsThrow(result)

Position(in, out, depth, via, key, inside) ==
  [in |-> in, out |-> out, depth |-> depth, via |-> via, key |-> key, inside |-> inside]

\* The positions of the output tree `out` built for the input value `in` found
\* at nesting depth `depth` (the root at 0, one more for each mapping level,
\* array level and Error cause), each with the input value and the output value
\* at it.  via tells how the position was entered: "root", "entry" (key is the
\* entry's key), "item", "cause", or "message" and "stack" for the two strings of
\* an Error, which sit in the Error's record.  inside holds the objects, arrays
\* and Errors the position lies in.
RECURSIVE PositionsIn(_, _, _, _, _, _, _)
PositionsIn(h, in, out, depth, via, key, inside) ==
  { Position(in, out, depth, via, key, inside) } \cup
  IF out.t = "array" THEN
    UNION { PositionsIn(h, h[in.id].items[k], out.items[k], depth + 1, "item", << >>,
                        inside \cup {in.id}) : k \in DOMAIN out.items }
  ELSE IF out.t = "object" /\ h[in.id].t = "object" THEN
    UNION { PositionsIn(h, h[in.id].entries[k].val, out.entries[k].val, depth + 1,
                        "entry", out.entries[k].key, inside \cup {in.id}) :
              k \in DOMAIN out.entries }
  ELSE IF out.t = "object" /\ h[in.id].t = "error" THEN
    { Position(VStr(h[in.id].message), out.entries[2].val, depth, "message", << >>, inside),
      Position(h[in.id].stack, out.entries[3].val, depth, "stack", << >>, inside) }
    \cup PositionsIn(h, h[in.id].cause, out.entries[4].val, depth + 1, "cause", << >>,
                     inside \cup {in.id})
  ELSE {}

Positions == PositionsIn(heap, arg, result, 0, "root", << >>, {})

\* The nesting depth of an output tree: 0 for a leaf.
RECURSIVE NestingDepth(_)
NestingDepth(out) ==
  IF out.t = "array" /\ out.items # << >>
    THEN 1 + Max({ NestingDepth(out.items[k]) : k \in DOMAIN out.items })
  ELSE IF out.t = "object" /\ out.entries # << >>
    THEN 1 + Max({ NestingDepth(out.entries[k].val) : k \in DOMAIN out.entries })
  ELSE 0

\* The references a heap node holds.
RefsOf(node) ==
  LET vals == CASE node.t = "object" -> { node.entries[k].val : k \in DOMAIN node.entries }
                [] node.t = "array" -> Range(node.items)
                [] node.t = "error" -> { node.cause }
  IN { v.id : v \in { w \in vals : w.t = "ref" } }

\* The nodes reached from the nodes S by one or more references.
RECURSIVE ReachFrom(_, _, _)
ReachFrom(h, S, acc) ==
  LET next == UNION { RefsOf(h[i]) : i \in S } \ acc
  IN IF next = {} THEN acc ELSE ReachFrom(h, next, acc \cup next)

\* The input holds a reference cycle: a node of the graph of the root that is
\* reached again from itself.
HasCycle(h) ==
  \E i \in {1} \cup ReachFrom(h, {1}, {}) : i \in ReachFrom(h, {i}, {})

\* The nodes of the kinds ks alone carry a cycle.
HasCycleThrough(h, ks) ==
  \E i \in DOMAIN h :
    /\ i \in ReachFrom(h, {i}, {})
    /\ \A j \in ReachFrom(h, {i}, {}) : i \in ReachFrom(h, {j}, {}) => h[j].t \in ks

\* The sensitive-key set as the callers configure it.
SensitiveKeySet == DEFAULT_SENSITIVE_KEYS \cup options.piiFields

\* A key lower-cased, its separators removed.
Normalised(key) == StripSeparators(ToLowerCase(key))

\* deepSanitize was called on the value at position p.
Reached(p) ==
  CASE p.via = "entry" -> ~isSensitiveKey(this, p.key)
    [] p.via = "cause" -> Truthy(p.in)
    [] p.via \in {"message", "stack"} -> FALSE
    [] OTHER -> TRUE

\* sanitizeString was called on the string at position p.
FromSanitizeString(p) ==
  \/ p.via = "message"
  \/ p.via = "stack" /\ Truthy(p.in)
  \/ Reached(p) /\ p.in.t = "string" /\ p.depth <= this.maxDepth

\* t is the truncation notice "... [truncated, total: N]" for some number N.
IsNotice(t) ==
  LET n == Len(TruncationNoticePrefix)
  IN /\ Len(t) >= n + 2
     /\ SubSeq(t, 1, n) = TruncationNoticePrefix
     /\ t[Len(t)] = "]"
     /\ \A i \in (n + 1)..(Len(t) - 1) : t[i] \in Digits

\* What follows the first n characters of s.
After(s, n) == SubSeq(s, n + 1, Len(s))

\* seg stands in s between characters that are not letters, digits or '_'.
Embedded(s, seg) ==
  \E i \in 1..(Len(s) - Len(seg) + 1) :
    /\ SubSeq(s, i, i + Len(seg) - 1) = seg
    /\ ~IsWordAt(s, i - 1)
    /\ ~IsWordAt(s, i + Len(seg))

(***************************************************************************)
(* C1  Redaction completeness.  Wherever a key of the sensitive-key set    *)
(* (the defaults and the caller's piiFields) occurs in a mapping that      *)
(* sanitize reaches, at any nesting level, the output holds exactly        *)
(* '[REDACTED]' under it, whatever the value was.                          *)
(***************************************************************************)
C1_SensitiveKeysRedacted ==
  Returned("sanitize") =>
    \A p \in Positions :
      (p.via = "entry" /\ p.key \in SensitiveKeySet) => p.out = VStr(REDACTED)

\* A caller-supplied key, two levels down, holding an object with no PII in it.
C1_Witness ==
  /\ Returned("sanitize")
  /\ \E p \in Positions :
       /\ p.via = "entry" /\ p.key \in options.piiFields /\ p.depth >= 2
       /\ p.in.t = "ref" /\ heap[p.in.id] = PlainObject
       /\ p.out = VStr(REDACTED)

(***************************************************************************)
(* C2  Keys that are equal after lower-casing and removing '-' and '_' are *)
(* treated alike: every spelling of a name of the sensitive-key set that   *)
(* differs from it by case or separators only is redacted.                 *)
(***************************************************************************)
C2_AllSpellingsRedacted ==
  Returned("sanitize") =>
    \A p \in Positions :
      ( /\ p.via = "entry"
        /\ \E name \in SensitiveKeySet : Normalised(p.key) = Normalised(name) )
      => p.out = VStr(REDACTED)

\* v is what the sanitizer lets through: no Error object, Date or function, no
\* sensitive key with a value other than '[REDACTED]', no string that
\* sanitizeString would still change.
RECURSIVE Sanitized(_, _)
Sanitized(h, v) ==
  CASE v.t \in {"undefined", "null", "number", "boolean"} -> TRUE
    [] v.t = "string" -> sanitizeString(this, v.s) = v.s
    [] v.t = "ref" -> h[v.id].t # "error" /\ Sanitized(h, h[v.id])
    [] v.t = "object" ->
         \A i \in 1..Len(v.entries) :
           IF isSensitiveKey(this, v.entries[i].key)
             THEN v.entries[i].val = VStr(REDACTED)
             ELSE Sanitized(h, v.entries[i].val)
    [] v.t = "array" -> \A i \in 1..Len(v.items) : Sanitized(h, v.items[i])
    [] OTHER -> FALSE

(***************************************************************************)
(* C3  Everything handed to a transport has passed through the sanitizer:  *)
(* the message and the context of every call on the Datadog logger, and    *)
(* the error and the context of every datadogRum.addError, are sanitized.  *)
(***************************************************************************)
C3_TransportsSanitized ==
  /\ \A i \in 1..Len(datadogLogs) :
       datadogLogs[i].method \in DOMAIN LOG_LEVEL_PRIORITY =>
         /\ Sanitized(heap, VStr(datadogLogs[i].message))
         /\ Sanitized(heap, datadogLogs[i].context)
  /\ \A i \in 1..Len(datadogRum) :
       datadogRum[i].method = "addError" =>
         /\ Sanitized(heap, datadogRum[i].error)
         /\ Sanitized(heap, datadogRum[i].context)

(***************************************************************************)
(* C4  sanitizeString replaces every embedded email address, phone number  *)
(* and credit-card number by '[REDACTED]': none of them is left in the     *)
(* string it returns.                                                      *)
(***************************************************************************)
C4_EveryPiiReplaced ==
  op = "sanitizeString" =>
    \A seg \in parts \cap (EmailSegments \cup PhoneSegments \cup CardSegments) :
      Embedded(arg.s, seg) => ~Includes(result.s, seg)

(***************************************************************************)
(* C5  sanitize returns a value for every input and never raises an        *)
(* exception to its caller.                                                *)
(***************************************************************************)
C5_NeverThrows == op = "sanitize" => ~IsThrow(result)

(***************************************************************************)
(* C6  sanitize terminates on every input graph, cyclic ones included: the *)
(* recursion of deepSanitize ends before the call stack is exhausted.      *)
(***************************************************************************)
C6_Terminates ==
  op = "sanitize" =>
    result # Throw("RangeError: Maximum call stack size exceeded")

\* A cycle that runs through arrays and Error causes only, which the visited
\* set never sees, under the default maximum depth.
C6_Witness ==
  /\ op = "sanitize"
  /\ HasCycleThrough(heap, {"array", "error"})
  /\ this.maxDepth = MAX_DEPTH
  /\ ~IsThrow(result)

(***************************************************************************)
(* C7  The output holds the '[CIRCULAR_REFERENCE]' marker at every cycle   *)
(* point: wherever the traversal, within the maximum depth, meets again an *)
(* object, array or Error it is already inside, whichever kind of          *)
(* container the cycle runs through.                                       *)
(***************************************************************************)
C7_CycleMarked ==
  Returned("sanitize") =>
    \A p \in Positions :
      ( /\ Reached(p) /\ p.depth <= this.maxDepth
        /\ p.in.t = "ref" /\ p.in.id \in p.inside )
      => p.out = VStr(CIRCULAR_REFERENCE)

(***************************************************************************)
(* C8  A value the traversal reaches is replaced by '[MAX_DEPTH_EXCEEDED]' *)
(* exactly when its depth is greater than the configured maximum, and the  *)
(* output never nests deeper than the maximum plus one.                    *)
(***************************************************************************)
C8_DepthBoundary ==
  Returned("sanitize") =>
    /\ \A p \in Positions :
         Reached(p) => ((p.depth > this.maxDepth) <=> (p.out = VStr(MAX_DEPTH_EXCEEDED)))
    /\ NestingDepth(result) <= this.maxDepth + 1

\* The marker at depth maximum + 1 of an input that is not cyclic.
C8_Witness ==
  /\ Returned("sanitize")
  /\ ~HasCycle(heap)
  /\ NestingDepth(result) = this.maxDepth + 1
  /\ \E p \in Positions :
       /\ Reached(p) /\ p.depth = this.maxDepth + 1
       /\ p.out = VStr(MAX_DEPTH_EXCEEDED)

C10_TruncationNotice ==
  op = "sanitizeString" =>
    LET L == Len(arg.s)
        max == this.maxStringLength
    IN IF L > max
         THEN /\ Len(result.s) > max
              /\ After(result.s, max) = TruncationNoticePrefix \o ToDecimal(L) \o << "]" >>
         ELSE result.s = ApplyPatterns(this.piiPatterns, arg.s, 1)

\* out holds no object of the caller: it is built of new objects and primitives.
RECURSIVE NewlyBuilt(_)
NewlyBuilt(out) ==
  CASE out.t = "ref" -> FALSE
    [] out.t = "object" -> \A i \in 1..Len(out.entries) : NewlyBuilt(out.entries[i].val)
    [] out.t = "array" -> \A i \in 1..Len(out.items) : NewlyBuilt(out.items[i])
    [] OTHER -> TRUE

(***************************************************************************)
(* C11  sanitize and sanitizeString do not change their argument: after a  *)
(* call, however it ended, every object, array and Error of the input has  *)
(* the keys, elements and values it had when the call was made, and what   *)
(* is returned is built anew.                                              *)
(***************************************************************************)
C11_InputUnchanged ==
  op \in {"sanitize", "sanitizeString"} =>
    /\ heap = snapshot
    /\ NewlyBuilt(result)

\* A call that redacted the value of a sensitive key, which the input still holds.
C11_Witness ==
  /\ Returned("sanitize")
  /\ heap = snapshot
  /\ \E p \in Positions :
       /\ p.via = "entry" /\ p.out = VStr(REDACTED)
       /\ p.in.t = "string" /\ p.in # p.out

\* The chain of causes of the Error id comes back to an Error already on it.
RECURSIVE CauseCycle(_, _, _)
CauseCycle(h, id, visited) ==
  IF id \in visited THEN TRUE
  ELSE IF h[id].cause.t = "ref" /\ h[h[id].cause.id].t = "error"
    THEN CauseCycle(h, h[id].cause.id, visited \cup {id})
  ELSE FALSE

(***************************************************************************)
(* C12  Capturing an error whose chain of causes is cyclic (e.cause = e)   *)
(* ends, and no exception reaches the caller of captureError.              *)
(***************************************************************************)
C12_CyclicCauseCaptured ==
  (op = "captureError" /\ CauseCycle(heap, arg.error.id, {})) => ~IsThrow(result)

\* The last step was a capture that reached the admission check.
Checked == op = "captureError" /\ ~shouldIgnore(config, heap[arg.error.id])

\* The capture went past the admission check: it reached the logger, which
\* threw, or it ended with the ERROR_CAPTURED event.
WasAdmitted ==
  \/ IsThrow(result)
  \/ \E i \in DOMAIN emitted : emitted[i].type = "ERROR_CAPTURED"

\* This step is a capture that reaches the admission check.
CheckStep ==
  /\ op' = "captureError"
  /\ now' = now
  /\ ~shouldIgnore(config, heap[arg'.error.id])

(***************************************************************************)
(* C13  With threshold N, the k-th admission check of a window is admitted *)
(* exactly when k <= N: each check of a window counts one more than the    *)
(* one before, the check that counts k is admitted iff k does not exceed   *)
(* N, and once a check was throttled the limiter stays throttled until the *)
(* window starts anew.                                                     *)
(***************************************************************************)
C13_AdmittedUpToThreshold ==
  /\ [](Checked => (WasAdmitted <=> ~Exceeds(errorCount, config.maxErrorsPerMinute)))
  /\ [][(CheckStep /\ errorWindowStart' = errorWindowStart)
          => errorCount' = errorCount + 1]_vars
  /\ [][(errorWindowStart' = errorWindowStart
           /\ Exceeds(errorCount, config.maxErrorsPerMinute))
          => Exceeds(errorCount', config.maxErrorsPerMinute)]_vars

\* The first throttled check of a window with a whole threshold.
C13_Witness ==
  /\ Checked
  /\ ~WasAdmitted
  /\ IsOneMoreThan(errorCount, config.maxErrorsPerMinute)
  /\ datadogLogs = << >>

\* The THROTTLE_ACTIVATED events among those the last handler emitted.
ThrottleNotices == SelectSeq(emitted, LAMBDA e : e.type = "THROTTLE_ACTIVATED")

\* The last check is the one that took its window from open to throttled.
OnTheEdge ==
  /\ Exceeds(errorCount, config.maxErrorsPerMinute)
  /\ ~Exceeds(errorCount - 1, config.maxErrorsPerMinute)

(***************************************************************************)
(* C14  For every threshold that validation accepts, the check that takes  *)
(* a window from open to throttled emits THROTTLE_ACTIVATED exactly once,  *)
(* with the count observed and the threshold, and no other check emits it. *)
(***************************************************************************)
C14_NotifiedOnTheEdge ==
  Checked =>
    IF OnTheEdge
      THEN /\ Len(ThrottleNotices) = 1
           /\ ThrottleNotices[1].data =
                [errorsPerMinute |-> errorCount, threshold |-> config.maxErrorsPerMinute]
      ELSE ThrottleNotices = << >>

(***************************************************************************)
(* C15  A throttled limiter opens again only through an admission check    *)
(* made more than 60 s after the start of its window; an admission check   *)
(* made that late starts a new window at the time of the check, is itself  *)
(* admitted, and leaves the counter at 1.                                  *)
(***************************************************************************)
C15_ReopensByLateCheck ==
  /\ [][(Exceeds(errorCount, config.maxErrorsPerMinute)
           /\ ~Exceeds(errorCount', config.maxErrorsPerMinute))
          => (CheckStep /\ now - errorWindowStart > windowMs)]_vars
  /\ [][(CheckStep /\ now - errorWindowStart > windowMs)
          => /\ errorWindowStart' = now
             /\ errorCount' = 1
             /\ WasAdmitted']_vars

\* A check has opened a new window after the first one.
C15_Witness ==
  /\ Checked
  /\ WasAdmitted
  /\ errorCount = 1
  /\ errorWindowStart = now
  /\ now > windowMs

(***************************************************************************)
(* C16  In any interval of one window length (60 s), wherever it starts,   *)
(* no more events are admitted than maxErrorsPerMinute: of the admissions  *)
(* observed, those less than 60 s after any one of them, that one          *)
(* included, do not exceed the threshold.                                  *)
(***************************************************************************)
C16_AtMostThresholdPerMinute ==
  \A i \in DOMAIN admissions :
    ~Exceeds(Cardinality({ j \in DOMAIN admissions :
                             /\ admissions[i] <= admissions[j]
                             /\ admissions[j] - admissions[i] < windowMs }),
             config.maxErrorsPerMinute)

\* The call of withRetry has settled.
Finished == pc \in {"fulfilled", "rejected"}

\* The k-th attempt failed, was not the maxAttempts-th, and shouldRetry, where
\* given, did not return false for it.
MayRetryAfter(k) ==
  /\ attempts[k].done
  /\ attempts[k].outcome.state = "rejected"
  /\ k # retryConfig.maxAttempts
  /\ ("shouldRetry" \in DOMAIN retryConfig /\ retryConfig.shouldRetry.kind = "table")
       => retryConfig.shouldRetry.table[k]

(***************************************************************************)
(* C17  withRetry makes no attempt after the first one that succeeds, that *)
(* is the maxAttempts-th, or for which shouldRetry returns false, and it   *)
(* goes on until such an attempt: always failing with maxAttempts = K      *)
(* gives K attempts, shouldRetry false on attempt 1 gives one attempt, and *)
(* a failure followed by a success gives two attempts and the success      *)
(* value.                                                                  *)
(***************************************************************************)
C17_StopsAtFirstFinalAttempt ==
  fn = "operation" =>
    /\ \A k \in 1..(Len(attempts) - 1) : MayRetryAfter(k)
    /\ Finished =>
         /\ attempts # << >> => ~MayRetryAfter(Len(attempts))
         /\ attempts = << >> => retryConfig.maxAttempts = 0
         /\ pc = "fulfilled" <=>
              (attempts # << >> /\ attempts[Len(attempts)].outcome.state = "fulfilled")
         /\ pc = "fulfilled" => settled = attempts[Len(attempts)].outcome

\* A failure, then a success: two attempts and the success value.
C17_Witness ==
  /\ fn = "operation"
  /\ pc = "fulfilled"
  /\ Len(attempts) = 2
  /\ attempts[1].outcome.state = "rejected"
  /\ settled = Fulfilled(VStr(S_done))

(***************************************************************************)
(* C18  Whenever withRetry fails, an attempt was made and the value it     *)
(* rejects with is the error thrown by the last attempt made.              *)
(***************************************************************************)
C18_RejectsWithLastError ==
  (fn = "operation" /\ pc = "rejected") =>
    /\ attempts # << >>
    /\ settled = Rejected(attempts[Len(attempts)].outcome.value)

(***************************************************************************)
(* C19  Within one call of withRetry at most one attempt is in flight, and *)
(* attempt n+1 starts only after attempt n has settled and the delay       *)
(* computed after it (the backoff delay scaled by a factor of at least one *)
(* half) has elapsed since.                                                *)
(***************************************************************************)
C19_AttemptsInSequence ==
  /\ inFlight <= 1
  /\ inFlight = Cardinality({ k \in DOMAIN attempts : ~attempts[k].done })
  /\ \A k \in 2..Len(attempts) :
       /\ attempts[k - 1].done
       /\ attempts[k - 1].end >= attempts[k - 1].start
       /\ 2 * attempts[k - 1].wait >= Delay(retryConfig, k - 1)
       /\ attempts[k].start >= attempts[k - 1].end + attempts[k - 1].wait

\* A second attempt is in flight, after a first that took time and a sleep.
C19_Witness ==
  /\ Len(attempts) = 2
  /\ inFlight = 1
  /\ attempts[1].end > attempts[1].start
  /\ attempts[1].wait > 0
  /\ attempts[2].start >= attempts[1].end + attempts[1].wait

\* The failure is transient: a network error, HTTP 429 or HTTP 5xx.
Transient(fetched) ==
  \/ fetched.kind = "network"
  \/ fetched.kind = "response" /\ fetched.status = 429
  \/ fetched.kind = "response" /\ 500 <= fetched.status /\ fetched.status <= 599

(***************************************************************************)
(* C20  A request of apiRequest that failed before the third attempt is    *)
(* retried exactly when its failure is transient; after any other failure  *)
(* the call is rejected at once.                                           *)
(***************************************************************************)
C20_RetriedIffTransient ==
  fn = "request" =>
    \A k \in DOMAIN attempts :
      (attempts[k].done /\ attempts[k].outcome.state = "rejected" /\ k < retryConfig.maxAttempts)
        => IF Transient(attempts[k].cause)
             THEN k < Len(attempts) \/ pc = "sleeping"
             ELSE k = Len(attempts) /\ pc = "rejected"

\* What the fingerprint is said to depend on
Triple(error) == << error.name, error.message, extractRelevantStack(error.stack) >>

(***************************************************************************)
(* C21  Any two calls of generateErrorFingerprint, in any order and at any *)
(* times, on errors with equal name, message and relevant stack line       *)
(* return the same string of eight hexadecimal digits.                     *)
(***************************************************************************)
C21_FingerprintOfTriple ==
  \A i, j \in DOMAIN fingerprinted :
    /\ Len(fingerprinted[i].fingerprint) = 8
    /\ \A k \in 1..8 : fingerprinted[i].fingerprint[k] \in Range(HexDigits)
    /\ Triple(fingerprinted[i].error) = Triple(fingerprinted[j].error)
         => fingerprinted[i].fingerprint = fingerprinted[j].fingerprint

\* Two errors with different stacks and the same relevant line, fingerprinted
\* at different times.
C21_Witness ==
  /\ Len(fingerprinted) = 2
  /\ fingerprinted[1].error.stack # fingerprinted[2].error.stack
  /\ fingerprinted[1].at # fingerprinted[2].at
  /\ Triple(fingerprinted[1].error) = Triple(fingerprinted[2].error)
  /\ fingerprinted[1].fingerprint = fingerprinted[2].fingerprint

(***************************************************************************)
(* C22  When an event is emitted, each handler registered for it is        *)
(* invoked, once and in the order of registration, whichever of them       *)
(* throw, and emit returns without an exception.                           *)
(***************************************************************************)
C22_AllHandlersInvoked ==
  notified # VUndefined =>
    /\ ~IsThrow(notified.result)
    /\ notified.invoked = notified.registered

\* A handler that throws was invoked before one that returns.
C22_Witness ==
  /\ notified # VUndefined
  /\ notified.registered = << 2, 1 >>
  /\ notified.invoked = << 2, 1 >>

\* How often a handler was invoked
TimesInvoked(invoked, id) == Cardinality({ k \in DOMAIN invoked : invoked[k] = id })

\* The handlers of sdk:destroyed a call of destroy() owes a notification:
\* subscribed when it was called and still subscribed when it completes
Owed(call) ==
  { call.subscribed[k] : k \in DOMAIN call.subscribed }
    \cap { call.remaining[k] : k \in DOMAIN call.remaining }

C29_TeardownAtMostOnce ==
  \A k \in DOMAIN torndown : torndown[k] <= 1

\* The last step was a capture of an error that matches an ignore pattern.
Ignored == op = "captureError" /\ shouldIgnore(config, heap[arg.error.id])

\* This step is a capture of an error that matches an ignore pattern.
IgnoreStep ==
  /\ op' = "captureError"
  /\ now' = now
  /\ shouldIgnore(config, heap[arg'.error.id])

C27_AttemptsAtLeastOnce ==
  (fn = "operation" /\ Finished) =>
    /\ Len(attempts) >= 1
    /\ pc = "rejected" =>
         /\ settled # Rejected(VUndefined)
         /\ \E k \in DOMAIN attempts : attempts[k].done /\ attempts[k].outcome = settled

(***************************************************************************)
(* C28  The circular-reference marker stands only where the input refers   *)
(* back to a container the position lies in: an object referenced from two *)
(* positions of an input without a cycle is not replaced by the marker at  *)
(* either position.                                                        *)
(***************************************************************************)
C28_MarkerOnlyAtCycle ==
  Returned("sanitize") =>
    \A p \in Positions :
      p.out = VStr(CIRCULAR_REFERENCE) => (p.in.t = "ref" /\ p.in.id \in p.inside)

(***************************************************************************)
(* C23  However often provision is run and whichever of its requests fail, *)
(* it creates a resource only under a name that no resource of that kind   *)
(* in the account bears: the account never holds two resources of one kind *)
(* with the same name.                                                     *)
(***************************************************************************)
C23_NoSecondOfAName ==
  \A r \in datadog, other \in datadog :
    (r.kind = other.kind /\ r.name = other.name) => r = other

\* This step is a call of teardown.
TeardownStep == lastRun'.op = "teardown" /\ datadog' \subseteq datadog

(***************************************************************************)
(* C24  teardown(service, env) deletes only resources created for that     *)
(* service and, the dashboard of a service apart, which serves all its     *)
(* environments, for that environment.                                     *)
(***************************************************************************)
C24_TeardownInScope ==
  [][TeardownStep =>
       \A r \in datadog \ datadog' :
         /\ r.service = lastRun'.service
         /\ r.kind # "dashboard" => r.env = lastRun'.env]_vars

\* The last step was a capture with capturing listeners that reached the
\* admission check.
Reentered == Checked /\ reentry.capturing # {}

(***************************************************************************)
(* C30  When listeners of sdk:error_captured or sdk:throttle_activated     *)
(* call captureError themselves, the captures nested in one capture end:   *)
(* the call stack is not exhausted, and the admission checks nested in the *)
(* capture number at most threshold + 1.                                   *)
(***************************************************************************)
C30_NestedCapturesBounded ==
  Reentered =>
    /\ ~reentry.overflow
    /\ ~Exceeds(reentry.checks - 1, Fraction(config.maxErrorsPerMinute.n + config.maxErrorsPerMinute.d, config.maxErrorsPerMinute.d))

\* Listeners of both events capture, in a window that was empty: threshold + 1
\* nested checks, the last of them made by the listener of the throttle event.
C30_Witness ==
  /\ Reentered
  /\ reentry.capturing = CapturingEvents
  /\ reentry.before = 0
  /\ IsOneMoreThan(reentry.checks - 1, config.maxErrorsPerMinute)
  /\ Exceeds(errorCount, config.maxErrorsPerMinute)

====
